---- MODULE Spec2Model ----
(***************************************************************************)
(* State-machine model of the DBM CSV import wizard (dbm.import.wizard)    *)
(* and of the model constraints of the dbm module.                         *)
(*                                                                         *)
(* Text is a sequence of one-character strings, so that strip, replace,    *)
(* split, isalnum, regular expressions and ilike are computed; a blank /   *)
(* unset Char field is the empty sequence, an unset many2one is 0.         *)
(* A python dict (partner_data, row, ...) is a function from keys to       *)
(* values; a table of the record store is a sequence of records whose      *)
(* index is the record id.                                                 *)
(*                                                                         *)
(* The database is two stores: db, what is committed, and tx, what the     *)
(* open cursor sees.  cr.commit() copies tx to db, cr.rollback() copies    *)
(* db to tx.  A request that returns commits, one that raises rolls back.  *)
(***************************************************************************)
EXTENDS Integers, Sequences, FiniteSets, TLC

\* ------------------------------------------------------------------ bounds
MaxRows == 2
MaxRuns == 2
MaxLotRows == 3

\* ------------------------------------------------------------------ text
Digits == {"0", "1", "2", "3", "4", "5", "6", "7", "8", "9"}
LowerSeq == <<"a", "b", "c", "d", "e", "f", "g", "h", "i", "j", "k", "l", "m",
              "n", "o", "p", "q", "r", "s", "t", "u", "v", "w", "x", "y", "z">>
UpperSeq == <<"A", "B", "C", "D", "E", "F", "G", "H", "I", "J", "K", "L", "M",
              "N", "O", "P", "Q", "R", "S", "T", "U", "V", "W", "X", "Y", "Z">>
LowerLetters == {LowerSeq[i] : i \in 1..26}
UpperLetters == {UpperSeq[i] : i \in 1..26}
Letters == LowerLetters \cup UpperLetters
\* str.strip() removes these
Whitespace == {" ", "\n", "\t", "\r"}

Min(S) == CHOOSE x \in S : \A y \in S : x <= y
Max(S) == CHOOSE x \in S : \A y \in S : x >= y

\* s[a..b] (1-based, inclusive); empty when a > b
Slice(s, a, b) == [i \in 1..(b - a + 1) |-> s[a + i - 1]]

\* str.strip()
Strip(s) ==
    LET keep == {i \in 1..Len(s) : s[i] \notin Whitespace}
    IN  IF keep = {} THEN <<>> ELSE Slice(s, Min(keep), Max(keep))

\* str.replace(c, '') for every c of chars
RemoveChars(s, chars) == SelectSeq(s, LAMBDA c : c \notin chars)

\* str.lower() / str.upper() on the letters of the alphabet
LowerChar(c) == IF c \in UpperLetters
                THEN LowerSeq[CHOOSE i \in 1..26 : UpperSeq[i] = c]
                ELSE IF c = "À" THEN "à" ELSE c
UpperChar(c) == IF c \in LowerLetters
                THEN UpperSeq[CHOOSE i \in 1..26 : LowerSeq[i] = c]
                ELSE IF c = "à" THEN "À" ELSE c
Lower(s) == [i \in 1..Len(s) |-> LowerChar(s[i])]
Upper(s) == [i \in 1..Len(s) |-> UpperChar(s[i])]

\* str.isalnum(): non-empty and every character a letter or a digit
IsAlnum(s) == Len(s) > 0 /\ \A i \in 1..Len(s) : s[i] \in Letters \cup Digits
\* str.isdigit()
IsDigit(s) == Len(s) > 0 /\ \A i \in 1..Len(s) : s[i] \in Digits

\* needle in hay (substring)
Contains(hay, needle) ==
    \E k \in 0..(Len(hay) - Len(needle)) :
        \A i \in 1..Len(needle) : hay[k + i] = needle[i]

\* the ORM's ('name', 'ilike', value): case-insensitive substring match
Ilike(field, value) == Contains(Lower(field), Lower(value))

\* ------------------------------------------------------------------ dicts
EmptyDict == [k \in {} |-> 0]
Has(d, k) == k \in DOMAIN d
\* d[k] = v
Put(d, k, v) == (k :> v) @@ d
\* del d[k] / d.pop(k, None)
Del(d, k) == [x \in (DOMAIN d) \ {k} |-> d[x]]
\* the entry k: v when cond, else nothing
Opt(cond, k, v) == IF cond THEN (k :> v) ELSE EmptyDict
\* d.get(k, dflt)
Get(d, k, dflt) == IF k \in DOMAIN d THEN d[k] ELSE dflt

\* a cell the csv reader filled with None (a data line shorter than the header)
NoneValue == <<"<None>">>

\* `csv_field in row and row[csv_field].strip()`: the stripped cell, empty when
\* the column is absent from the file
Cell(row, c) == IF c \in DOMAIN row THEN Strip(row[c]) ELSE <<>>
\* row[csv_field].strip() raises AttributeError on a None cell
HasNone(row, cols) == \E c \in cols \cap DOMAIN row : row[c] = NoneValue

\* ------------------------------------------------------------------ store
\* res.country and res.country.state rows of the host (id = index)
Countries == << [code |-> <<"I", "T">>], [code |-> <<"F", "R">>] >>
CountryStates == << [code |-> <<"M", "I">>, country_id |-> 1],
                    [code |-> <<"M", "I">>, country_id |-> 2] >>
\* res.users rows (id = index); env.user is EnvUser
Users == << [name |-> <<"a", "d", "m", "i", "n">>], [name |-> <<"e", "d", "o">>] >>
EnvUser == 1
\* the values of env.user.tz (a field of the store): not set, or a zone one hour
\* east of UTC all year round
UserTimezones == {"", "Etc/GMT-1"}

BlankPartner ==
    [name |-> <<>>, ref |-> <<>>, is_company |-> FALSE, company_type |-> "person",
     parent_id |-> 0, street |-> <<>>, zip |-> <<>>, city |-> <<>>,
     state_id |-> 0, country_id |-> 0, vat |-> <<>>,
     l10n_it_codice_fiscale |-> <<>>, phone |-> <<>>, mobile |-> <<>>,
     email |-> <<>>, website |-> <<>>, comment |-> <<>>]

BlankLot ==
    [name |-> <<>>, ref |-> <<>>, manufacturer_lot |-> <<>>, customer_lot |-> <<>>,
     rental_company_id |-> 0, testing_status |-> "not_tested", product_id |-> 0,
     note |-> <<>>, labor_warranty |-> <<>>, parts_warranty |-> <<>>,
     onsite_warranty |-> <<>>]

BlankTask ==
    [name |-> <<>>, partner_id |-> 0, user_ids |-> {}, planned_date_start |-> <<>>,
     stage_id |-> 0, state |-> "", tag_ids |-> <<>>, project_id |-> 0,
     description |-> <<>>, partner_ref_id |-> 0, project_code |-> <<>>]

BlankTicket ==
    [name |-> <<>>, number |-> <<>>, user_id |-> 0, partner_id |-> 0,
     partner_name |-> <<>>, description |-> <<>>, stage_id |-> 0,
     assigned_date |-> <<>>, active |-> TRUE,
     create_date |-> <<>>, planned_date |-> <<>>]

BlankProject ==
    [name |-> <<>>, code |-> <<>>, partner_id |-> 0, description |-> <<>>,
     stage_id |-> 0, type_dbm |-> <<>>, cig |-> <<>>, cup |-> <<>>,
     date |-> <<>>, date_start |-> <<>>, allow_billable |-> FALSE, user_id |-> 0]

\* record.write(vals) on one record: the fields named in vals are replaced
Assign(rec, vals) ==
    [f \in DOMAIN rec |-> IF f \in DOMAIN vals THEN vals[f] ELSE rec[f]]

EmptyStore ==
    [partner |-> <<>>, project |-> <<>>, project_stage |-> <<>>,
     task |-> <<>>, task_type |-> <<>>, tags |-> <<>>,
     ticket |-> <<>>, ticket_stage |-> <<>>,
     lot |-> <<>>, product |-> <<>>,
     ticket_seq |-> 0, logging |-> 0, note |-> <<>>, user_tz |-> ""]

\* Model.search(domain, limit=1): the first matching id in table order, 0 if none
\* (ids is the set of matching ids)
First(ids) == IF ids = {} THEN 0 ELSE Min(ids)

\* cr.commit() / cr.rollback() on the cursor c = [db, tx]
Commit(c) == [db |-> c.tx, tx |-> c.tx]
\* (the ticket number sequence is not transactional: a rollback keeps it)
Rollback(c) == [db |-> c.db, tx |-> [c.db EXCEPT !.ticket_seq = c.tx.ticket_seq]]
\* the transaction's store replaced
WithTx(c, st) == [db |-> c.db, tx |-> st]

\* _log_import_error: one ir.logging row (its own failure is swallowed)
LogImportError(c) == WithTx(c, [c.tx EXCEPT !.logging = @ + 1])

\* ResPartner._check_codice_unique on record id: TRUE when the constraint passes
CheckCodiceUnique(st, id) ==
    LET rec == st.partner[id]
    IN  rec.ref # <<>> =>
          ~ \E j \in 1..Len(st.partner) : j # id /\ st.partner[j].ref = rec.ref

\* res.partner create(vals): the row is inserted, then the constraints of the
\* fields written run; a ValidationError leaves the inserted row to the
\* transaction (undone only by a rollback).
\* [c, id, ok]
CreatePartner(c, vals) ==
    LET st == [c.tx EXCEPT !.partner = Append(@, Assign(BlankPartner, vals))]
        id == Len(st.partner)
    IN  [c |-> WithTx(c, st), id |-> id,
         ok |-> ("ref" \in DOMAIN vals => CheckCodiceUnique(st, id))]

\* res.partner write(vals) on record id: [c, ok]
WritePartner(c, id, vals) ==
    LET st == [c.tx EXCEPT !.partner[id] = Assign(@, vals)]
    IN  [c |-> WithTx(c, st),
         ok |-> ("ref" \in DOMAIN vals => CheckCodiceUnique(st, id))]

\* ------------------------------------------------------------------ partners
\* field_mapping of _import_partners (csv column -> field), in dict order
PartnerColumns == {"Codice", "Nome Completo", "Indirizzo", "CAP", "Città", "Prov.",
                   "NAZIONE", "Partita IVA", "Codice fiscale", "Num.tel.1", "Cell.",
                   "E-mail", "Internet", "Num.tel.2", "Fax"}

\* re.match(r'^[a-zA-Z0-9._%+-]+@[a-zA-Z0-9.-]+\.[a-zA-Z]{2,}$', s) on stripped text
EmailLocalChars == Letters \cup Digits \cup {".", "_", "%", "+", "-"}
EmailDomainChars == Letters \cup Digits \cup {".", "-"}
EmailMatch(s) ==
    \E a \in 2..Len(s) : \E d \in (a + 2)..Len(s) :
        /\ s[a] = "@"
        /\ \A i \in 1..(a - 1) : s[i] \in EmailLocalChars
        /\ \A i \in (a + 1)..(d - 1) : s[i] \in EmailDomainChars
        /\ s[d] = "."
        /\ Len(s) - d >= 2
        /\ \A i \in (d + 1)..Len(s) : s[i] \in Letters

\* the VAT format check: punctuation removed, then alphanumeric and 8 or longer
VatFormatOk(v) ==
    LET vat == RemoveChars(v, {" ", ".", "-"})
    IN  ~ (~ IsAlnum(vat) \/ Len(vat) < 8)

\* (every postal code is kept)
ZipOk_Any(v) == TRUE

\* the postal code check
ZipOk(v) == IsDigit(v) /\ Len(v) = 5

\* res.country search by code, res.country.state search by code (and country)
CountryByCode(code) == First({i \in 1..Len(Countries) : Countries[i].code = code})
StateByCode(code, country_id) ==
    First({i \in 1..Len(CountryStates) :
             /\ CountryStates[i].code = code
             /\ (country_id # 0 => CountryStates[i].country_id = country_id)})

NA == <<"N", "/", "A">>
CodeIT == <<"I", "T">>

\* a line of the partner's comment built from Num.tel.2 / Fax, or appended by SQL
Note(tag, val) == [tag |-> tag, val |-> val]

\* _prepare_partner_data, first pass: basic fields and country (state_id, vat and
\* phone are skipped; the comment cells are replaced by the notes further down)
PartnerPass1(row) ==
    LET v(col) == Cell(row, col)
    IN  Opt(v("Codice") # <<>>, "ref", v("Codice"))
     @@ Opt(v("Nome Completo") # <<>>, "name", v("Nome Completo"))
     @@ Opt(v("Indirizzo") # <<>>, "street", v("Indirizzo"))
     @@ Opt(v("CAP") # <<>> /\ ZipOk(v("CAP")), "zip", v("CAP"))
     @@ Opt(v("Città") # <<>>, "city", v("Città"))
     @@ Opt(v("NAZIONE") # <<>> /\ CountryByCode(v("NAZIONE")) # 0,
            "country_id", CountryByCode(v("NAZIONE")))
     @@ Opt(v("Codice fiscale") # <<>>, "l10n_it_codice_fiscale", v("Codice fiscale"))
     @@ Opt(v("Cell.") # <<>>, "mobile", v("Cell."))
     @@ Opt(v("E-mail") # <<>>, "email", v("E-mail"))
     @@ Opt(v("Internet") # <<>>, "website", v("Internet"))

\* second pass: the state, looked up within the country the row resolved
PartnerPass2(row, d) ==
    LET state == StateByCode(Cell(row, "Prov."), Get(d, "country_id", 0))
    IN  Opt(Cell(row, "Prov.") # <<>> /\ state # 0, "state_id", state) @@ d

\* third pass: vat and phone, as read
PartnerPass3(row, d) ==
       Opt(Cell(row, "Partita IVA") # <<>>, "vat", Cell(row, "Partita IVA"))
    @@ Opt(Cell(row, "Num.tel.1") # <<>>, "phone", Cell(row, "Num.tel.1"))
    @@ d

\* a missing name falls back to the codice
PartnerDefaultName(d) ==
    IF Has(d, "name") THEN d ELSE Put(d, "name", Get(d, "ref", NA))

\* an e-mail that fails the pattern is removed
DropInvalidEmail(d) ==
    IF Has(d, "email") /\ ~ EmailMatch(d["email"]) THEN Del(d, "email") ELSE d

\* (the format check left out: the VAT reaches the SQL update whatever its shape)
DropInvalidVat_Keep(d) == d

\* a VAT that fails the format check is removed
DropInvalidVat(d) ==
    IF Has(d, "vat") /\ ~ VatFormatOk(d["vat"]) THEN Del(d, "vat") ELSE d

\* (company flags only: the country stays the one the row resolved)
PartnerDefaults_RowCountry(d) ==
    Put(Put(d, "is_company", TRUE), "company_type", "company")

\* company flags, and the country set to Italy when that country exists
PartnerDefaults(d) ==
    LET typed == Put(Put(d, "is_company", TRUE), "company_type", "company")
    IN  IF CountryByCode(CodeIT) # 0
        THEN Put(typed, "country_id", CountryByCode(CodeIT)) ELSE typed

\* Num.tel.2 and Fax become the comment
PartnerNotes(row, d) ==
    LET notes_parts ==
            (IF Cell(row, "Num.tel.2") # <<>>
             THEN <<Note("Num.tel.2", Cell(row, "Num.tel.2"))>> ELSE <<>>)
         \o (IF Cell(row, "Fax") # <<>>
             THEN <<Note("Fax", Cell(row, "Fax"))>> ELSE <<>>)
    IN  IF notes_parts # <<>> THEN Put(d, "comment", notes_parts) ELSE d

\* the three passes and the name default: the data the required-field check sees
PartnerRead(row) ==
    PartnerDefaultName(PartnerPass3(row, PartnerPass2(row, PartnerPass1(row))))

\* _prepare_partner_data(row, field_mapping): [c, ok, data]; ok = FALSE when it raises
PreparePartnerData(c, row) ==
    IF HasNone(row, PartnerColumns)
    THEN [c |-> c, ok |-> FALSE, data |-> EmptyDict]
    ELSE IF ~ Has(PartnerRead(row), "ref")
    THEN [c |-> LogImportError(c), ok |-> FALSE, data |-> EmptyDict]
    ELSE [c |-> c, ok |-> TRUE,
          data |-> PartnerNotes(row, PartnerDefaults(DropInvalidVat(
                       DropInvalidEmail(PartnerRead(row)))))]

\* the comment append of _update_partner_vat_cf_sql (CASE ... comment || %s)
AppendComment(c, id, note) ==
    IF id \in 1..Len(c.tx.partner)
    THEN WithTx(c, [c.tx EXCEPT !.partner[id].comment = Append(@, note)])
    ELSE c

\* UPDATE res_partner SET <column> = value WHERE id = id (no such row, no change)
SqlSetPartner(c, id, column, value) ==
    IF id \in 1..Len(c.tx.partner)
    THEN WithTx(c, [c.tx EXCEPT !.partner[id][column] = value])
    ELSE c

\* the VAT half of _update_partner_vat_cf_sql; fails: the database refuses the
\* UPDATE, which is rolled back and noted in the comment
SqlUpdateVat(c, id, vat_value, fails) ==
    IF vat_value = <<>> THEN c
    ELSE IF ~ fails
    THEN Commit(SqlSetPartner(c, id, "vat", vat_value))
    ELSE AppendComment(Rollback(c), id, Note("Partita IVA non valida", <<>>))

\* the fiscal code half
SqlUpdateCf(c, id, cf_value, fails) ==
    IF cf_value = <<>> THEN c
    ELSE IF ~ fails
    THEN Commit(SqlSetPartner(c, id, "l10n_it_codice_fiscale", cf_value))
    ELSE AppendComment(Rollback(c), id, Note("Codice Fiscale non valido", cf_value))

\* _update_partner_vat_cf_sql(partner_id, vat_value, cf_value)
UpdatePartnerVatCfSql(c, id, vat_value, cf_value, vat_fails, cf_fails) ==
    SqlUpdateCf(SqlUpdateVat(Commit(c), id, vat_value, vat_fails), id, cf_value, cf_fails)

\* the outcome of one row: what it did to the cursor, how it is counted, the
\* record and the values written
Outcome(c, action, id, vals) == [c |-> c, action |-> action, id |-> id, vals |-> vals]
\* (a row that is passed over without being counted)
Failed_Skipped(c) == Outcome(c, "skipped", 0, EmptyDict)
\* the row raised: the except branch of the loop counts it as an error
Failed(c) == Outcome(c, "error", 0, EmptyDict)

\* the update branch of _create_or_update_partner: a failed write is rolled back
\* and the row still reported as updated
UpdatePartner(w, id, vals) ==
    Outcome(IF w.ok THEN w.c ELSE Rollback(w.c), "updated", id, vals)

\* the create branch; n = create(vals)
CreatedPartner(n, vals, vat_value, cf_value, vat_fails, cf_fails) ==
    IF n.ok
    THEN Outcome(UpdatePartnerVatCfSql(n.c, n.id, vat_value, cf_value,
                                       vat_fails, cf_fails),
                 "created", n.id, vals)
    ELSE Failed(LogImportError(n.c))

\* the search of _create_or_update_partner: by ref when the data has one, else by name
ExistingPartner(st, vals) ==
    First({i \in 1..Len(st.partner) :
             IF Has(vals, "ref") THEN st.partner[i].ref = vals["ref"]
             ELSE st.partner[i].name = vals["name"]})

\* (nothing popped: vat and l10n_it_codice_fiscale stay in partner_data)
WithoutVatCf_Kept(d) == d

\* partner_data without the popped vat and l10n_it_codice_fiscale
WithoutVatCf(d) == Del(Del(d, "vat"), "l10n_it_codice_fiscale")

\* _create_or_update_partner(partner_data): an Outcome
CreateOrUpdatePartner(c, partner_data, vat_fails, cf_fails) ==
    IF ExistingPartner(c.tx, WithoutVatCf(partner_data)) # 0
    THEN UpdatePartner(WritePartner(c, ExistingPartner(c.tx, WithoutVatCf(partner_data)),
                                    WithoutVatCf(partner_data)),
                       ExistingPartner(c.tx, WithoutVatCf(partner_data)),
                       WithoutVatCf(partner_data))
    ELSE CreatedPartner(CreatePartner(c, WithoutVatCf(partner_data)),
                        WithoutVatCf(partner_data),
                        Get(partner_data, "vat", <<>>),
                        Get(partner_data, "l10n_it_codice_fiscale", <<>>),
                        vat_fails, cf_fails)

\* ------------------------------------------------------------------ persons
\* field_mapping of _import_persons, in dict order
PersonColumns == {"Azienda", "Referenti", "E-mail", "Cellulare 1", "Telefono 1",
                  "Note", "Codice", "Partita IVA"}

\* the phone clean-up of _prepare_person_data
CleanPhone(v) == RemoveChars(v, {" ", "-", "/", "(", ")"})

\* the company search of the 'parent_company' branch
CompanyByName(st, value) ==
    First({i \in 1..Len(st.partner) :
             Ilike(st.partner[i].name, value) /\ st.partner[i].is_company})

BareCompany(value) ==
    ("name" :> value) @@ ("is_company" :> TRUE) @@ ("company_type" :> "company")

\* the 'parent_company' branch: the company found, or a bare one created
\* [c, parent_id]; parent_id = 0 when the Azienda cell is blank
PersonCompany(c, row) ==
    IF Cell(row, "Azienda") = <<>> THEN [c |-> c, parent_id |-> 0]
    ELSE IF CompanyByName(c.tx, Cell(row, "Azienda")) # 0
    THEN [c |-> c, parent_id |-> CompanyByName(c.tx, Cell(row, "Azienda"))]
    ELSE [c |-> CreatePartner(c, BareCompany(Cell(row, "Azienda"))).c,
          parent_id |-> CreatePartner(c, BareCompany(Cell(row, "Azienda"))).id]

\* the other branches of the mapping loop
PersonFields(row) ==
    LET v(col) == Cell(row, col)
    IN  Opt(v("Referenti") # <<>>, "name", v("Referenti"))
     @@ Opt(v("E-mail") # <<>> /\ EmailMatch(v("E-mail")), "email", v("E-mail"))
     @@ Opt(v("Cellulare 1") # <<>>, "mobile", CleanPhone(v("Cellulare 1")))
     @@ Opt(v("Telefono 1") # <<>>, "phone", CleanPhone(v("Telefono 1")))
     @@ Opt(v("Note") # <<>>, "comment", <<Note("", v("Note"))>>)
     @@ Opt(v("Codice") # <<>>, "ref", v("Codice"))
     @@ Opt(v("Partita IVA") # <<>>, "vat", v("Partita IVA"))

\* the defaults set after the required-field check
PersonDefaults(d, parent_id) ==
    Put(Put(Put(IF Has(d, "comment") THEN d ELSE Put(d, "comment", <<>>),
                "parent_id", parent_id),
            "is_company", FALSE),
        "company_type", "person")

\* _prepare_person_data after the company lookup co = PersonCompany(c, row)
PersonAfterCompany(co, row) ==
    IF HasNone(row, PersonColumns \ {"Azienda"})
    THEN [c |-> co.c, ok |-> FALSE, data |-> EmptyDict]
    ELSE IF ~ Has(PersonFields(row), "name")
    THEN [c |-> LogImportError(co.c), ok |-> FALSE, data |-> EmptyDict]
    ELSE [c |-> co.c, ok |-> TRUE,
          data |-> DropInvalidVat(PersonDefaults(PersonFields(row), co.parent_id))]

\* _prepare_person_data(row, field_mapping): [c, ok, data]
PreparePersonData(c, row) ==
    IF HasNone(row, {"Azienda"})
    THEN [c |-> c, ok |-> FALSE, data |-> EmptyDict]
    ELSE PersonAfterCompany(PersonCompany(c, row), row)

\* the search of _create_or_update_person: by name, and parent when there is one
ExistingPerson(st, d) ==
    First({i \in 1..Len(st.partner) :
             /\ st.partner[i].name = d["name"]
             /\ (d["parent_id"] # 0 => st.partner[i].parent_id = d["parent_id"])
             /\ ~ st.partner[i].is_company})

\* the update branch: a failed write is rolled back, the row is reported as
\* updated and the VAT is written by SQL
UpdatePerson(w, id, vals, vat_value, vat_fails) ==
    Outcome(UpdatePartnerVatCfSql(IF w.ok THEN w.c ELSE Rollback(w.c),
                                  id, vat_value, <<>>, vat_fails, FALSE),
            "updated", id, vals)

\* _create_or_update_person(person_data): an Outcome
CreateOrUpdatePerson(c, person_data, vat_fails) ==
    IF ExistingPerson(c.tx, person_data) # 0
    THEN UpdatePerson(WritePartner(c, ExistingPerson(c.tx, person_data),
                                   Del(person_data, "vat")),
                      ExistingPerson(c.tx, person_data), Del(person_data, "vat"),
                      Get(person_data, "vat", <<>>), vat_fails)
    ELSE CreatedPartner(CreatePartner(c, Del(person_data, "vat")),
                        Del(person_data, "vat"), Get(person_data, "vat", <<>>), <<>>,
                        vat_fails, FALSE)

\* ------------------------------------------------------------------ decoding
\* a blob is a sequence of bytes (0..255), decoded text a sequence of code points
IsCont(x) == x \in 128..191

\* bytes.decode('utf-8') from position i: [ok, text]
RECURSIVE Utf8From(_, _)
Utf8From(b, i) ==
    IF i > Len(b) THEN [ok |-> TRUE, text |-> <<>>]
    ELSE
      LET x == b[i]
          n == IF x < 128 THEN 1
               ELSE IF x \in 194..223 THEN 2
               ELSE IF x \in 224..239 THEN 3
               ELSE IF x \in 240..244 THEN 4
               ELSE 0
          wellFormed ==
              /\ n > 0
              /\ i + n - 1 <= Len(b)
              /\ \A k \in 1..(n - 1) : IsCont(b[i + k])
              /\ (x = 224 => b[i + 1] >= 160)
              /\ (x = 237 => b[i + 1] <= 159)
              /\ (x = 240 => b[i + 1] >= 144)
              /\ (x = 244 => b[i + 1] <= 143)
          cp == IF n = 1 THEN x
                ELSE IF n = 2 THEN (x - 192) * 64 + (b[i + 1] - 128)
                ELSE IF n = 3
                THEN (x - 224) * 4096 + (b[i + 1] - 128) * 64 + (b[i + 2] - 128)
                ELSE (x - 240) * 262144 + (b[i + 1] - 128) * 4096
                     + (b[i + 2] - 128) * 64 + (b[i + 3] - 128)
          rest == Utf8From(b, i + n)
      IN  IF wellFormed /\ rest.ok
          THEN [ok |-> TRUE, text |-> <<cp>> \o rest.text]
          ELSE [ok |-> FALSE, text |-> <<>>]

\* the UTF-8 encoding of U+FEFF
BomBytes == <<239, 187, 191>>

\* bytes 0x80..0x9F of cp1252: the code point, 0 where the byte is undefined
Cp1252High == <<8364, 0, 8218, 402, 8222, 8230, 8224, 8225, 710, 8240, 352, 8249,
                338, 0, 381, 0, 0, 8216, 8217, 8220, 8221, 8226, 8211, 8212, 732,
                8482, 353, 8250, 339, 0, 382, 376>>
Cp1252Char(x) == IF x \in 128..159 THEN Cp1252High[x - 127] ELSE x

\* file_content.decode(encoding): [ok, text]; ok = FALSE is UnicodeDecodeError
Decode(encoding, b) ==
    CASE encoding = "utf-8" -> Utf8From(b, 1)
      [] encoding = "utf-8-sig" ->
            IF Len(b) >= 3 /\ SubSeq(b, 1, 3) = BomBytes
            THEN Utf8From(b, 4) ELSE Utf8From(b, 1)
      [] encoding = "cp1252" ->
            IF \E i \in 1..Len(b) : Cp1252Char(b[i]) = 0
            THEN [ok |-> FALSE, text |-> <<>>]
            ELSE [ok |-> TRUE, text |-> [i \in 1..Len(b) |-> Cp1252Char(b[i])]]
      [] encoding \in {"iso-8859-1", "latin1"} -> [ok |-> TRUE, text |-> b]

\* (the candidates in another order: the one that drops a byte order mark first)
encodings_to_try_SigFirst ==
    <<"utf-8-sig", "utf-8", "cp1252", "iso-8859-1", "latin1">>

\* (the candidates in another order: the encoding that never fails first)
encodings_to_try_Latin1First ==
    <<"iso-8859-1", "utf-8", "utf-8-sig", "cp1252", "latin1">>

\* encodings_to_try of the auto-detect branch
encodings_to_try == <<"utf-8", "utf-8-sig", "cp1252", "iso-8859-1", "latin1">>

\* the auto-detect loop from candidate i on: csv_content of the first encoding
\* that decodes; ok = FALSE when csv_content stays None
RECURSIVE TryEncodings(_, _)
TryEncodings(b, i) ==
    IF i > Len(encodings_to_try) THEN [ok |-> FALSE, text |-> <<>>]
    ELSE IF Decode(encodings_to_try[i], b).ok THEN Decode(encodings_to_try[i], b)
    ELSE TryEncodings(b, i + 1)

\* "Handle file encoding" of every _import_<kind>: [ok, text]
DecodeFile(file_encoding, b) ==
    IF file_encoding = "auto" THEN TryEncodings(b, 1) ELSE Decode(file_encoding, b)

\* ------------------------------------------------------------------ dates
DigitSeq == <<"0", "1", "2", "3", "4", "5", "6", "7", "8", "9">>
DigitVal(ch) == (CHOOSE i \in 1..10 : DigitSeq[i] = ch) - 1
NonZero == Digits \ {"0"}

\* int() of a field strptime matched (a day may carry a leading blank)
RECURSIVE NumVal(_)
NumVal(t) ==
    IF t = <<>> THEN 0
    ELSE IF t[Len(t)] = " " THEN NumVal(SubSeq(t, 1, Len(t) - 1))
    ELSE NumVal(SubSeq(t, 1, Len(t) - 1)) * 10 + DigitVal(t[Len(t)])

\* the regular expression strptime compiles for each directive, on the whole of t
FieldOk(tok, t) ==
    CASE tok = "d" ->
           \/ Len(t) = 1 /\ t[1] \in NonZero
           \/ Len(t) = 2 /\ \/ t[1] = "3" /\ t[2] \in {"0", "1"}
                            \/ t[1] \in {"1", "2"} /\ t[2] \in Digits
                            \/ t[1] \in {"0", " "} /\ t[2] \in NonZero
      [] tok = "m" ->
           \/ Len(t) = 1 /\ t[1] \in NonZero
           \/ Len(t) = 2 /\ \/ t[1] = "1" /\ t[2] \in {"0", "1", "2"}
                            \/ t[1] = "0" /\ t[2] \in NonZero
      [] tok = "Y" -> Len(t) = 4 /\ \A i \in 1..4 : t[i] \in Digits
      [] tok = "H" ->
           \/ Len(t) = 1 /\ t[1] \in Digits
           \/ Len(t) = 2 /\ \/ t[1] = "2" /\ t[2] \in {"0", "1", "2", "3"}
                            \/ t[1] \in {"0", "1"} /\ t[2] \in Digits
      [] tok = "M" ->
           \/ Len(t) = 1 /\ t[1] \in Digits
           \/ Len(t) = 2 /\ t[1] \in {"0", "1", "2", "3", "4", "5"} /\ t[2] \in Digits
      [] tok = "S" ->
           \/ Len(t) = 1 /\ t[1] \in Digits
           \/ Len(t) = 2 /\ \/ t[1] = "6" /\ t[2] \in {"0", "1"}
                            \/ t[1] \in {"0", "1", "2", "3", "4", "5"} /\ t[2] \in Digits

Directives == {"d", "m", "Y", "H", "M", "S"}

\* the matches of format fmt (a sequence of directives and literals, a blank
\* standing for \s+) from token i on against s from position pos on, the whole
\* of s consumed: the set of the field values found
RECURSIVE StrptimeFrom(_, _, _, _)
StrptimeFrom(fmt, i, s, pos) ==
    IF i > Len(fmt) THEN (IF pos > Len(s) THEN {EmptyDict} ELSE {})
    ELSE IF fmt[i] \in Directives
    THEN UNION { {Put(r, fmt[i], NumVal(SubSeq(s, pos, pos + n - 1))) :
                    r \in StrptimeFrom(fmt, i + 1, s, pos + n)} :
                 n \in {k \in 1..4 : /\ pos + k - 1 <= Len(s)
                                     /\ FieldOk(fmt[i], SubSeq(s, pos, pos + k - 1))} }
    ELSE IF fmt[i] = " "
    THEN UNION { StrptimeFrom(fmt, i + 1, s, pos + n) :
                 n \in {k \in 1..(Len(s) - pos + 1) :
                          \A j \in pos..(pos + k - 1) : s[j] \in Whitespace} }
    ELSE IF pos <= Len(s) /\ s[pos] = fmt[i]
    THEN StrptimeFrom(fmt, i + 1, s, pos + 1)
    ELSE {}

IsLeap(y) == (y % 4 = 0 /\ y % 100 # 0) \/ y % 400 = 0
DaysIn(y, m) ==
    IF m = 2 THEN (IF IsLeap(y) THEN 29 ELSE 28)
    ELSE IF m \in {4, 6, 9, 11} THEN 30 ELSE 31

\* the datetime built from the fields (time fields default to 0)
DateTimeOf(f) ==
    [Y |-> f["Y"], m |-> f["m"], d |-> f["d"],
     H |-> Get(f, "H", 0), M |-> Get(f, "M", 0), S |-> Get(f, "S", 0)]

\* the datetime constructor accepts the fields
DateTimeOk(dt) ==
    dt.Y >= 1 /\ dt.d <= DaysIn(dt.Y, dt.m) /\ dt.S <= 59

\* datetime.strptime(value, fmt): [ok, dt]; ok = FALSE is ValueError
Strptime(value, fmt) ==
    LET found == {DateTimeOf(f) : f \in StrptimeFrom(fmt, 1, value, 1)}
    IN  IF \E dt \in found : DateTimeOk(dt)
        THEN [ok |-> TRUE, dt |-> CHOOSE dt \in found : DateTimeOk(dt)]
        ELSE [ok |-> FALSE, dt |-> [Y |-> 0, m |-> 0, d |-> 0, H |-> 0, M |-> 0, S |-> 0]]

\* the decimal digits of n, without padding
RECURSIVE NumText(_)
NumText(n) ==
    IF n < 10 THEN <<DigitSeq[n + 1]>>
    ELSE Append(NumText(n \div 10), DigitSeq[(n % 10) + 1])
Pad2(n) == <<DigitSeq[(n \div 10) + 1], DigitSeq[(n % 10) + 1]>>

\* dt.strftime('%Y-%m-%d %H:%M:%S') (the C library does not pad the year)
Strftime(dt) ==
    NumText(dt.Y) \o <<"-">> \o Pad2(dt.m) \o <<"-">> \o Pad2(dt.d) \o <<" ">>
    \o Pad2(dt.H) \o <<":">> \o Pad2(dt.M) \o <<":">> \o Pad2(dt.S)

Fmt_dmY_HM == <<"d", "/", "m", "/", "Y", " ", "H", ":", "M">>
Fmt_dmY_HMS == <<"d", "/", "m", "/", "Y", " ", "H", ":", "M", ":", "S">>
Fmt_dmY == <<"d", "/", "m", "/", "Y">>
Fmt_Ymd_HMS == <<"Y", "-", "m", "-", "d", " ", "H", ":", "M", ":", "S">>
Fmt_Ymd_HM == <<"Y", "-", "m", "-", "d", " ", "H", ":", "M">>
Fmt_Ymd == <<"Y", "-", "m", "-", "d">>
Fmt_dmY_dash_HM == <<"d", "-", "m", "-", "Y", " ", "H", ":", "M">>
Fmt_dmY_dash == <<"d", "-", "m", "-", "Y">>

\* (a month-first format put in front of the list)
Fmt_mdY == <<"m", "/", "d", "/", "Y">>
date_formats_MonthFirst ==
    <<Fmt_mdY, Fmt_dmY_HM, Fmt_dmY_HMS, Fmt_dmY, Fmt_Ymd_HMS, Fmt_Ymd_HM, Fmt_Ymd,
      Fmt_dmY_dash_HM, Fmt_dmY_dash>>

\* date_formats of the project, activity and helpdesk imports
date_formats == <<Fmt_dmY_HM, Fmt_dmY_HMS, Fmt_dmY, Fmt_Ymd_HMS, Fmt_Ymd_HM, Fmt_Ymd,
                  Fmt_dmY_dash_HM, Fmt_dmY_dash>>
\* (the list of the other imports: the dash day-month-year formats as well)
lot_date_formats_WithDash ==
    <<Fmt_dmY_HM, Fmt_dmY_HMS, Fmt_dmY, Fmt_Ymd_HMS, Fmt_Ymd_HM, Fmt_Ymd,
      Fmt_dmY_dash_HM, Fmt_dmY_dash>>
\* date_formats of the stock-lot import
lot_date_formats == <<Fmt_dmY_HM, Fmt_dmY_HMS, Fmt_dmY, Fmt_Ymd_HMS, Fmt_Ymd_HM, Fmt_Ymd>>

\* the loop over the formats from format i on: the first that parses
\* [ok, text]; ok = FALSE when parsed_date stays None
RECURSIVE ParseDateFrom(_, _, _)
ParseDateFrom(value, formats, i) ==
    IF i > Len(formats) THEN [ok |-> FALSE, text |-> <<>>]
    ELSE IF Strptime(value, formats[i]).ok
    THEN [ok |-> TRUE, text |-> Strftime(Strptime(value, formats[i]).dt)]
    ELSE ParseDateFrom(value, formats, i + 1)
ParseDate(value, formats) == ParseDateFrom(value, formats, 1)

\* the first format of the list, from format i on, that parses the value
\* (0 when none does): the date_format the loop breaks on
RECURSIVE FirstFormat(_, _, _)
FirstFormat(value, formats, i) ==
    IF i > Len(formats) THEN 0
    ELSE IF Strptime(value, formats[i]).ok THEN i
    ELSE FirstFormat(value, formats, i + 1)

\* pytz.timezone(user_tz).utcoffset in hours, user_tz = env.user.tz or 'UTC'
UtcOffset(user_tz) == IF user_tz = "Etc/GMT-1" THEN 1 ELSE 0

\* the day before the day of dt, the time kept
DayBefore(dt) ==
    IF dt.d > 1 THEN [dt EXCEPT !.d = @ - 1]
    ELSE IF dt.m > 1 THEN [dt EXCEPT !.m = @ - 1, !.d = DaysIn(dt.Y, dt.m - 1)]
    ELSE [dt EXCEPT !.Y = @ - 1, !.m = 12, !.d = 31]

\* local_tz.localize(parsed_date).astimezone(pytz.utc): [ok, dt]; a result
\* before year 1 is OverflowError
AsUtc(dt, user_tz) ==
    IF dt.H >= UtcOffset(user_tz)
    THEN [ok |-> TRUE, dt |-> [dt EXCEPT !.H = @ - UtcOffset(user_tz)]]
    ELSE [ok |-> DayBefore(dt).Y >= 1,
          dt |-> [DayBefore(dt) EXCEPT !.H = dt.H + 24 - UtcOffset(user_tz)]]

\* the planned_date_start branch of _prepare_activity_data: the value parsed
\* with the first format that matches, taken as a time of the user's zone and
\* converted to UTC; [ok, text], ok = FALSE when nothing is stored
ActivityDate(value, user_tz) ==
    LET i == FirstFormat(value, date_formats, 1)
    IN  IF i = 0 THEN [ok |-> FALSE, text |-> <<>>]
        ELSE IF ~ AsUtc(Strptime(value, date_formats[i]).dt, user_tz).ok
        THEN [ok |-> FALSE, text |-> <<>>]
        ELSE [ok |-> TRUE,
              text |-> Strftime(AsUtc(Strptime(value, date_formats[i]).dt, user_tz).dt)]

\* ------------------------------------------------------------------ projects
\* Project._check_project_code_unique on record id: TRUE when the constraint passes
CheckProjectCodeUnique(st, id) ==
    LET rec == st.project[id]
    IN  rec.code # <<>> =>
          ~ \E j \in 1..Len(st.project) : j # id /\ st.project[j].code = rec.code

\* project.project create(vals): [c, id, ok]
CreateProject(c, vals) ==
    LET st == [c.tx EXCEPT !.project = Append(@, Assign(BlankProject, vals))]
        id == Len(st.project)
    IN  [c |-> WithTx(c, st), id |-> id,
         ok |-> ("code" \in DOMAIN vals => CheckProjectCodeUnique(st, id))]

\* project.project write(vals) on record id: [c, ok]
WriteProject(c, id, vals) ==
    LET st == [c.tx EXCEPT !.project[id] = Assign(@, vals)]
    IN  [c |-> WithTx(c, st),
         ok |-> ("code" \in DOMAIN vals => CheckProjectCodeUnique(st, id))]

TestProjectCode == <<"T", "E", "S", "T", "-", "D", "B", "M", "-", "0", "0", "1">>
TestProjectName == <<"T", "e", "s", "t">>
Generico == <<"G", "E", "N", "E", "R", "I", "C", "O">>

\* (unlink removes every project)
UnlinkProject_All(c, id) == WithTx(c, [c.tx EXCEPT !.project = <<>>])

\* test_project.unlink(): the project id is removed from the table (a record is
\* its position in its table; the test project is the last one, so no other
\* record moves)
UnlinkProject(c, id) ==
    WithTx(c, [c.tx EXCEPT !.project = SubSeq(@, 1, id - 1) \o SubSeq(@, id + 1, Len(@))])

\* _test_project_creation(): [c, ok]; the test project is created and unlinked,
\* or its creation raises and False is returned
TestProjectCreation(c) ==
    LET n == CreateProject(c, ("name" :> TestProjectName) @@ ("code" :> TestProjectCode)
                              @@ ("type_dbm" :> Generico))
    IN  IF n.ok THEN [c |-> UnlinkProject(n.c, n.id), ok |-> TRUE]
        ELSE [c |-> n.c, ok |-> FALSE]

\* field_mapping of _import_projects, in dict order
ProjectColumns == {"Commessa", "Cliente", "Codice", "Descrizione", "Stato", "Tipologia",
                   "CIG", "CUP", "Data fine effettiva", "Data inizio pianificata"}
\* the columns the mapping loop reads up to and including Stato
ProjectColumnsToStato == {"Commessa", "Cliente", "Codice", "Descrizione", "Stato"}

Stage_DaFare == <<"D", "a", " ", "f", "a", "r", "e">>
Stage_InCorso == <<"I", "n", " ", "c", "o", "r", "s", "o">>
Stage_Completato == <<"C", "o", "m", "p", "l", "e", "t", "a", "t", "o">>
Stage_Annullato == <<"A", "n", "n", "u", "l", "l", "a", "t", "o">>

\* standard_stage_map
standard_stage_map ==
       (<<"D", "A", " ", "F", "A", "R", "E">> :> Stage_DaFare)
    @@ (<<"T", "O", " ", "D", "O">> :> Stage_DaFare)
    @@ (<<"I", "N", " ", "C", "O", "R", "S", "O">> :> Stage_InCorso)
    @@ (<<"I", "N", " ", "P", "R", "O", "G", "R", "E", "S", "S">> :> Stage_InCorso)
    @@ (<<"C", "O", "M", "P", "L", "E", "T", "A", "T", "O">> :> Stage_Completato)
    @@ (<<"C", "O", "M", "P", "L", "E", "T", "E", "D">> :> Stage_Completato)
    @@ (<<"C", "H", "I", "U", "S", "O">> :> Stage_Completato)
    @@ (<<"A", "N", "N", "U", "L", "L", "A", "T", "O">> :> Stage_Annullato)
    @@ (<<"C", "A", "N", "C", "E", "L", "L", "E", "D">> :> Stage_Annullato)
    @@ (<<"C", "A", "N", "C", "E", "L", "E", "D">> :> Stage_Annullato)

\* (a search that finds nothing)
ByName_None(table, name) == 0

\* search([('name', '=', name)], limit=1) on a table of named records
ByName(table, name) == First({i \in 1..Len(table) : table[i].name = name})
\* (limit=1 without the domain: the first partner, whatever its name)
PartnerByName_Any(st, value) == First(1..Len(st.partner))

\* search([('name', 'ilike', value)], limit=1) on res.partner
PartnerByName(st, value) ==
    First({i \in 1..Len(st.partner) : Ilike(st.partner[i].name, value)})

\* the name of the stage a Stato cell stands for
ProjectStageName(value) == Get(standard_stage_map, Upper(value), value)

\* the 'stage_id' branch: the stage found by name, or created: [c, stage_id]
\* (stage_id = 0 when the Stato cell is blank)
ProjectStage(c, row) ==
    IF Cell(row, "Stato") = <<>> THEN [c |-> c, stage_id |-> 0]
    ELSE IF ByName(c.tx.project_stage, ProjectStageName(Cell(row, "Stato"))) # 0
    THEN [c |-> c,
          stage_id |-> ByName(c.tx.project_stage, ProjectStageName(Cell(row, "Stato")))]
    ELSE [c |-> WithTx(c, [c.tx EXCEPT !.project_stage =
                             Append(@, [name |-> ProjectStageName(Cell(row, "Stato"))])]),
          stage_id |-> Len(c.tx.project_stage) + 1]

\* the date branches: the cell parsed and formatted, absent when no format parses
DateField(row, col, field, formats) ==
    Opt(Cell(row, col) # <<>> /\ ParseDate(Cell(row, col), formats).ok,
        field, ParseDate(Cell(row, col), formats).text)

\* (only the name is read from the row)
ProjectFields_NameOnly(row, st) ==
    Opt(Cell(row, "Commessa") # <<>>, "name", Cell(row, "Commessa"))

\* the other branches of the mapping loop; st is the store the partner is
\* searched in
ProjectFields(row, st) ==
    LET v(col) == Cell(row, col)
    IN  Opt(v("Commessa") # <<>>, "name", v("Commessa"))
     @@ Opt(v("Cliente") # <<>> /\ PartnerByName(st, v("Cliente")) # 0,
            "partner_id", PartnerByName(st, v("Cliente")))
     @@ Opt(v("Codice") # <<>>, "code", v("Codice"))
     @@ Opt(v("Descrizione") # <<>>, "description", v("Descrizione"))
     @@ Opt(v("Tipologia") # <<>>, "type_dbm", v("Tipologia"))
     @@ Opt(v("CIG") # <<>>, "cig", v("CIG"))
     @@ Opt(v("CUP") # <<>>, "cup", v("CUP"))
     @@ DateField(row, "Data fine effettiva", "date", date_formats)
     @@ DateField(row, "Data inizio pianificata", "date_start", date_formats)

\* "Validate date fields if provided": a date that does not read back is removed
DropUnreadableDate(d, field) ==
    IF Has(d, field) /\ d[field] # <<>> /\ ~ Strptime(d[field], Fmt_Ymd_HMS).ok
    THEN Del(d, field) ELSE d

\* the tail of _prepare_project_data, and allow_billable set by the row loop
ProjectDefaults(d, stage_id) ==
    Put(IF Has(d, "type_dbm") THEN d ELSE Put(d, "type_dbm", Generico),
        "allow_billable", TRUE)
    @@ Opt(stage_id # 0, "stage_id", stage_id)

\* _prepare_project_data after the stage lookup sg = ProjectStage(c, row)
ProjectAfterStage(sg, row) ==
    IF HasNone(row, ProjectColumns \ ProjectColumnsToStato)
    THEN [c |-> sg.c, ok |-> FALSE, data |-> EmptyDict]
    ELSE IF ~ Has(ProjectFields(row, sg.c.tx), "name")
    THEN [c |-> LogImportError(sg.c), ok |-> FALSE, data |-> EmptyDict]
    ELSE [c |-> sg.c, ok |-> TRUE,
          data |-> ProjectDefaults(
                     DropUnreadableDate(DropUnreadableDate(ProjectFields(row, sg.c.tx),
                                                           "date_start"), "date"),
                     sg.stage_id)]

\* _prepare_project_data(row, field_mapping): [c, ok, data]
PrepareProjectData(c, row) ==
    IF HasNone(row, ProjectColumnsToStato)
    THEN [c |-> c, ok |-> FALSE, data |-> EmptyDict]
    ELSE ProjectAfterStage(ProjectStage(c, row), row)

\* the search of _create_or_update_project: by code when the data has one, else by name
ExistingProject(st, d) ==
    First({i \in 1..Len(st.project) :
             IF Has(d, "code") THEN st.project[i].code = d["code"]
             ELSE st.project[i].name = d["name"]})

\* (the record left as the write or create made it)
ProjectWritten_UserKept(w, action, id, vals, user_id) ==
    IF w.ok THEN Outcome(w.c, action, id, vals) ELSE Failed(LogImportError(w.c))

\* record.user_id = self.user_id.id after a write or create that did not raise
ProjectWritten(w, action, id, vals, user_id) ==
    IF w.ok
    THEN Outcome(WithTx(w.c, [w.c.tx EXCEPT !.project[id].user_id = user_id]),
                 action, id, Put(vals, "user_id", user_id))
    ELSE Failed(LogImportError(w.c))

\* _create_or_update_project(project_data): an Outcome
CreateOrUpdateProject(c, project_data, user_id) ==
    IF ExistingProject(c.tx, project_data) # 0
    THEN ProjectWritten(WriteProject(c, ExistingProject(c.tx, project_data), project_data),
                        "updated", ExistingProject(c.tx, project_data),
                        project_data, user_id)
    ELSE ProjectWritten(CreateProject(c, project_data), "created",
                        Len(c.tx.project) + 1, project_data, user_id)

\* ------------------------------------------------------------------ stock lots
\* field_mapping of _import_stock_lots, in dict order
LotColumns == {"Matricola Interna", "Nome Macchina", "Matricola Produttore",
               "Matricola Cliente", "Azienda Locazione Macchina", "Collaudo",
               "Codice prodotto", "Nome prodotto", "Note", "Garanzia manodopera",
               "Garanzia ricambi", "Garanzia on site"}

\* status_mapping
status_mapping ==
       (<<"c", "o", "l", "l", "a", "u", "d", "a", "t", "o">> :> "tested")
    @@ (<<"t", "e", "s", "t", "e", "d">> :> "tested")
    @@ (<<"i", "n", " ", "a", "t", "t", "e", "s", "a">> :> "pending")
    @@ (<<"p", "e", "n", "d", "i", "n", "g">> :> "pending")
    @@ (<<"n", "o", "n", " ", "c", "o", "l", "l", "a", "u", "d", "a", "t", "o">> :> "not_tested")
    @@ (<<"n", "o", "t", " ", "t", "e", "s", "t", "e", "d">> :> "not_tested")

\* the mapping loop of _prepare_stock_lot_data; st is the store the rental
\* company is searched in
LotFields(row, st) ==
    LET v(col) == Cell(row, col)
    IN  Opt(v("Matricola Interna") # <<>>, "name", v("Matricola Interna"))
     @@ Opt(v("Nome Macchina") # <<>>, "ref", v("Nome Macchina"))
     @@ Opt(v("Matricola Produttore") # <<>>, "manufacturer_lot", v("Matricola Produttore"))
     @@ Opt(v("Matricola Cliente") # <<>>, "customer_lot", v("Matricola Cliente"))
     @@ Opt(v("Azienda Locazione Macchina") # <<>>
              /\ PartnerByName(st, v("Azienda Locazione Macchina")) # 0,
            "rental_company_id", PartnerByName(st, v("Azienda Locazione Macchina")))
     @@ Opt(v("Collaudo") # <<>>, "testing_status",
            Get(status_mapping, Lower(v("Collaudo")), "not_tested"))
     @@ Opt(v("Codice prodotto") # <<>>, "product_code", v("Codice prodotto"))
     @@ Opt(v("Nome prodotto") # <<>>, "product_name", v("Nome prodotto"))
     @@ Opt(v("Note") # <<>>, "note", v("Note"))
     @@ DateField(row, "Garanzia manodopera", "labor_warranty", lot_date_formats)
     @@ DateField(row, "Garanzia ricambi", "parts_warranty", lot_date_formats)
     @@ DateField(row, "Garanzia on site", "onsite_warranty", lot_date_formats)

\* the product search: by default_code first, then by name
ProductByCode(st, code) ==
    First({i \in 1..Len(st.product) : st.product[i].default_code = code})
ProductByName(st, name) ==
    First({i \in 1..Len(st.product) : Ilike(st.product[i].name, name)})
FindProduct(st, product_code, product_name) ==
    IF product_code # <<>> /\ ProductByCode(st, product_code) # 0
    THEN ProductByCode(st, product_code)
    ELSE IF product_name # <<>> THEN ProductByName(st, product_name)
    ELSE 0

Txt_ProdottoImportato == <<"P", "r", "o", "d", "o", "t", "t", "o", " ", "I", "m", "p", "o", "r", "t", "a", "t", "o">>
\* f"IMP-{int(datetime.now().timestamp())}"
Txt_ImpCode == <<"I", "M", "P", "-", "<timestamp>">>

\* the product created when none is found
NewProduct(product_code, product_name) ==
    [name |-> IF product_name # <<>> THEN product_name
              ELSE IF product_code # <<>> THEN product_code
              ELSE Txt_ProdottoImportato,
     default_code |-> IF product_code # <<>> THEN product_code ELSE Txt_ImpCode]

\* "Process product identification": [c, product_id] (0 when the row names no
\* product); the product found, or created
LotProduct(c, d) ==
    IF ~ (Has(d, "product_code") \/ Has(d, "product_name"))
    THEN [c |-> c, product_id |-> 0]
    ELSE IF FindProduct(c.tx, Get(d, "product_code", <<>>),
                        Get(d, "product_name", <<>>)) # 0
    THEN [c |-> c,
          product_id |-> FindProduct(c.tx, Get(d, "product_code", <<>>),
                                     Get(d, "product_name", <<>>))]
    ELSE [c |-> WithTx(c, [c.tx EXCEPT !.product =
                             Append(@, NewProduct(Get(d, "product_code", <<>>),
                                                  Get(d, "product_name", <<>>)))]),
          product_id |-> Len(c.tx.product) + 1]

\* the data once the product is known: the helper fields removed, the note
\* defaulted
LotData(d, product_id) ==
    Put(Del(Del(IF Has(d, "note") THEN d ELSE Put(d, "note", <<>>),
                "product_code"), "product_name"),
        "product_id", product_id)

\* _prepare_stock_lot_data after the product step pr = LotProduct(c, d)
LotAfterProduct(pr, d) ==
    IF ~ Has(d, "name") \/ pr.product_id = 0
    THEN [c |-> LogImportError(pr.c), ok |-> FALSE, data |-> EmptyDict]
    ELSE [c |-> pr.c, ok |-> TRUE, data |-> LotData(d, pr.product_id)]

\* _prepare_stock_lot_data(row, field_mapping): [c, ok, data]
PrepareStockLotData(c, row) ==
    IF HasNone(row, LotColumns)
    THEN [c |-> c, ok |-> FALSE, data |-> EmptyDict]
    ELSE LotAfterProduct(LotProduct(c, LotFields(row, c.tx)), LotFields(row, c.tx))

\* the search of _create_or_update_stock_lot: by name and product
ExistingLot(st, d) ==
    First({i \in 1..Len(st.lot) :
             st.lot[i].name = d["name"] /\ st.lot[i].product_id = d["product_id"]})

\* _create_or_update_stock_lot(lot_data): an Outcome
CreateOrUpdateStockLot(c, lot_data) ==
    IF ExistingLot(c.tx, lot_data) # 0
    THEN Outcome(WithTx(c, [c.tx EXCEPT !.lot[ExistingLot(c.tx, lot_data)] =
                              Assign(@, lot_data)]),
                 "updated", ExistingLot(c.tx, lot_data), lot_data)
    ELSE Outcome(WithTx(c, [c.tx EXCEPT !.lot = Append(@, Assign(BlankLot, lot_data))]),
                 "created", Len(c.tx.lot) + 1, lot_data)

\* ------------------------------------------------------------------ activities
\* field_mapping of _import_activities, in dict order
ActivityColumns == <<"Attività", "Azienda", "In carico a", "Data", "Fatta/da fare",
                     "Macro tipo", "Commessa", "Descrizione attività", "Tipo attività",
                     "Referente">>
\* the columns the mapping loop reads from the a-th to the b-th
ActivityColumnsIn(a, b) == {ActivityColumns[i] : i \in a..b}

\* {i.name: i.id for i in search([])}.get(name, False): the last record of that name
IdByName(table, name) ==
    IF \E i \in 1..Len(table) : table[i].name = name
    THEN Max({i \in 1..Len(table) : table[i].name = name}) ELSE 0

\* stage_mapping of _prepare_activity_data
activity_stage_mapping ==
       (<<"A", "N", "N", "U", "L", "L", "A", "T", "A">> :> <<"A", "n", "n", "u", "l", "l", "a", "t", "a">>)
    @@ (<<"T", "O", " ", "D", "O">> :> <<"A", "t", "t", "i", "v", "i", "t", "à", " ", "d", "a", " ", "f", "a", "r", "e">>)
    @@ (<<"C", "O", "M", "P", "L", "E", "T", "E", "D">> :> <<"A", "t", "t", "i", "v", "i", "t", "à", " ", "f", "a", "t", "t", "a">>)
Txt_AttivitaFatta == <<"A", "T", "T", "I", "V", "I", "T", "À", " ", "F", "A", "T", "T", "A">>

ActivityStageName(value) == Get(activity_stage_mapping, Upper(value), value)

\* the 'stage_id' branch: [c, stage_id]; the stage of that name, or a new one
ActivityStage(c, row) ==
    IF Cell(row, "Fatta/da fare") = <<>> THEN [c |-> c, stage_id |-> 0]
    ELSE IF IdByName(c.tx.task_type, ActivityStageName(Cell(row, "Fatta/da fare"))) # 0
    THEN [c |-> c,
          stage_id |-> IdByName(c.tx.task_type,
                                ActivityStageName(Cell(row, "Fatta/da fare")))]
    ELSE [c |-> WithTx(c, [c.tx EXCEPT !.task_type =
                  Append(@, [name |-> ActivityStageName(Cell(row, "Fatta/da fare"))])]),
          stage_id |-> Len(c.tx.task_type) + 1]

\* a 'tag_ids' branch on the cell of column col: t = [c, tags] so far; the tag of
\* that name, or a new one, is added unless already there
ActivityTag(t, row, col) ==
    IF Cell(row, col) = <<>> THEN t
    ELSE IF IdByName(t.c.tx.tags, Cell(row, col)) # 0
    THEN [c |-> t.c,
          tags |-> IF \E i \in 1..Len(t.tags) :
                         t.tags[i] = IdByName(t.c.tx.tags, Cell(row, col))
                   THEN t.tags
                   ELSE Append(t.tags, IdByName(t.c.tx.tags, Cell(row, col)))]
    ELSE [c |-> WithTx(t.c, [t.c.tx EXCEPT !.tags = Append(@, [name |-> Cell(row, col)])]),
          tags |-> Append(t.tags, Len(t.c.tx.tags) + 1)]

\* the project code of a Commessa cell: the text before its last '-'
CleanProjectCode(value) ==
    IF \E i \in 1..Len(value) : value[i] = "-"
    THEN Strip(SubSeq(value, 1, Max({i \in 1..Len(value) : value[i] = "-"}) - 1))
    ELSE Strip(value)

ProjectByCode(st, code) ==
    First({i \in 1..Len(st.project) : st.project[i].code = code})

\* user_names.get(value, False), else the current user
UserByName(value) ==
    IF IdByName(Users, value) # 0 THEN IdByName(Users, value) ELSE EnvUser

\* the branches of the mapping loop that create nothing
ActivityFields(row, st) ==
    LET v(col) == Cell(row, col)
    IN  Opt(v("Attività") # <<>>, "name", v("Attività"))
     @@ Opt(v("Azienda") # <<>> /\ PartnerByName(st, v("Azienda")) # 0,
            "partner_id", PartnerByName(st, v("Azienda")))
     @@ Opt(v("In carico a") # <<>>, "user_ids", {UserByName(v("In carico a"))})
     @@ Opt(v("Data") # <<>> /\ ActivityDate(v("Data"), st.user_tz).ok,
            "planned_date_start", ActivityDate(v("Data"), st.user_tz).text)
     @@ Opt(v("Fatta/da fare") # <<>> /\ Upper(v("Fatta/da fare")) = Txt_AttivitaFatta,
            "state", "1_done")
     @@ Opt(v("Commessa") # <<>> /\ CleanProjectCode(v("Commessa")) # <<>>
              /\ ProjectByCode(st, CleanProjectCode(v("Commessa"))) # 0,
            "project_id", ProjectByCode(st, CleanProjectCode(v("Commessa"))))
     @@ Opt(v("Descrizione attività") # <<>>, "description", v("Descrizione attività"))
     @@ Opt(v("Referente") # <<>> /\ PartnerByName(st, v("Referente")) # 0,
            "partner_ref_id", PartnerByName(st, v("Referente")))

\* activity_data once the loop is over
ActivityData(row, st, stage_id, tags) ==
    ActivityFields(row, st) @@ Opt(stage_id # 0, "stage_id", stage_id)
                            @@ Opt(tags # <<>>, "tag_ids", tags)

\* _prepare_activity_data from the Tipo attività cell on; t2 = [c, tags] after it
ActivityAfterTags(t2, row, stage_id) ==
    IF HasNone(row, ActivityColumnsIn(10, 10))
    THEN [c |-> t2.c, ok |-> FALSE, data |-> EmptyDict]
    ELSE IF ~ Has(ActivityFields(row, t2.c.tx), "name")
    THEN [c |-> LogImportError(t2.c), ok |-> FALSE, data |-> EmptyDict]
    ELSE [c |-> t2.c, ok |-> TRUE,
          data |-> ActivityData(row, t2.c.tx, stage_id, t2.tags)]

\* from the Macro tipo cell on; t1 = [c, tags] after it
ActivityAfterMacro(t1, row, stage_id) ==
    IF HasNone(row, ActivityColumnsIn(7, 9))
    THEN [c |-> t1.c, ok |-> FALSE, data |-> EmptyDict]
    ELSE ActivityAfterTags(ActivityTag(t1, row, "Tipo attività"), row, stage_id)

\* from the Fatta/da fare cell on; sg = [c, stage_id] after it
ActivityAfterStage(sg, row) ==
    IF HasNone(row, ActivityColumnsIn(6, 6))
    THEN [c |-> sg.c, ok |-> FALSE, data |-> EmptyDict]
    ELSE ActivityAfterMacro(ActivityTag([c |-> sg.c, tags |-> <<>>], row, "Macro tipo"),
                            row, sg.stage_id)

\* _prepare_activity_data(row, field_mapping): [c, ok, data]
PrepareActivityData(c, row) ==
    IF HasNone(row, ActivityColumnsIn(1, 5))
    THEN [c |-> c, ok |-> FALSE, data |-> EmptyDict]
    ELSE ActivityAfterStage(ActivityStage(c, row), row)

\* ProjectTask._check_project_code_format on a value: TRUE when the constraint
\* passes; re.match(r'^\d{5}-\d{2}$', v), where $ also matches before a final
\* newline
ProjectCodeMatch(v) ==
    /\ Len(v) \in {8, 9}
    /\ \A i \in 1..5 : v[i] \in Digits
    /\ v[6] = "-"
    /\ \A i \in 7..8 : v[i] \in Digits
    /\ (Len(v) = 9 => v[9] = "\n")
CheckProjectCodeFormat(v) == v # <<>> => ProjectCodeMatch(v)

\* ProjectTask.create(vals): the project is looked up by project_code, the task
\* inserted, the constraint of project_code checked: [c, id, ok]
CreateTask(c, vals) ==
    [c |-> WithTx(c, [c.tx EXCEPT !.task = Append(@, Assign(BlankTask,
              Opt(Get(vals, "project_code", <<>>) # <<>>
                    /\ ProjectByCode(c.tx, Get(vals, "project_code", <<>>)) # 0,
                  "project_id", ProjectByCode(c.tx, Get(vals, "project_code", <<>>)))
              @@ vals))]),
     id |-> Len(c.tx.task) + 1,
     ok |-> (Has(vals, "project_code") => CheckProjectCodeFormat(vals["project_code"]))]

\* the task created: assigned to the wizard's user when it has no assignee
ActivityCreated(n, vals, user_id) ==
    IF ~ n.ok THEN Failed(LogImportError(n.c))
    ELSE IF user_id # 0 /\ n.c.tx.task[n.id].user_ids = {}
    THEN Outcome(WithTx(n.c, [n.c.tx EXCEPT !.task[n.id].user_ids = {user_id}]),
                 "created", n.id, Put(vals, "user_ids", {user_id}))
    ELSE Outcome(n.c, "created", n.id, vals)

\* _create_or_update_activity(activity_data): existing_activity is always False
CreateOrUpdateActivity(c, activity_data, user_id) ==
    ActivityCreated(CreateTask(c, activity_data), activity_data, user_id)

\* ------------------------------------------------------------------ helpdesk
\* field_mapping of _import_helpdesk_tickets, in dict order
TicketColumns == <<"Oggetto", "Codice", "Proprietario", "Cliente", "Descrizione", "Stato",
                   "Data inizio effettiva", "Data creazione", "Data Pianificazione">>
TicketColumnsIn(a, b) == {TicketColumns[i] : i \in a..b}

Txt_Nuovo == <<"N", "u", "o", "v", "o">>
Txt_InAttesa == <<"I", "n", " ", "a", "t", "t", "e", "s", "a">>
\* stage_mapping of _prepare_helpdesk_ticket_data
ticket_stage_mapping ==
       (<<"A", "P", "E", "R", "T", "O">> :> Txt_Nuovo)
    @@ (<<"I", "N", " ", "C", "O", "R", "S", "O">> :> <<"I", "n", " ", "c", "o", "r", "s", "o">>)
    @@ (<<"I", "N", " ", "A", "T", "T", "E", "S", "A">> :> Txt_InAttesa)
    @@ (<<"C", "H", "I", "U", "S", "O", " ", "-", " ", "O", "K">> :> <<"F", "a", "t", "t", "o">>)
    @@ (<<"C", "H", "I", "U", "S", "O", " ", "-", " ", "K", "O">> :> <<"R", "e", "s", "p", "i", "n", "t", "o">>)
    @@ (<<"A", "N", "N", "U", "L", "L", "A", "T", "O">> :> <<"A", "n", "n", "u", "l", "l", "a", "t", "o">>)
    @@ (<<"P", "I", "A", "N", "I", "F", "I", "C", "A", "Z", "I", "O", "N", "E">> :> Txt_Nuovo)
    @@ (<<"S", "O", "S", "P", "E", "S", "O">> :> Txt_InAttesa)

TicketStageName(value) == Get(ticket_stage_mapping, Upper(value), value)

\* the helpdesk.ticket.stage created for a Stato cell
NewTicketStage(value) ==
    [name |-> TicketStageName(value),
     closed |-> Contains(Upper(value), <<"C", "H", "I", "U", "S", "O">>),
     unattended |-> Contains(Upper(value), <<"A", "T", "T", "E", "S", "A">>) \/ Contains(Upper(value), <<"S", "O", "S", "P", "E", "S", "O">>)]

\* the stage of that name, or stage appended: [c, stage_id]
FindOrCreateTicketStage(c, stage) ==
    IF ByName(c.tx.ticket_stage, stage.name) # 0
    THEN [c |-> c, stage_id |-> ByName(c.tx.ticket_stage, stage.name)]
    ELSE [c |-> WithTx(c, [c.tx EXCEPT !.ticket_stage = Append(@, stage)]),
          stage_id |-> Len(c.tx.ticket_stage) + 1]

\* the 'stage_id' branch: [c, stage_id], stage_id = 0 when the cell is blank
TicketStage(c, row) ==
    IF Cell(row, "Stato") = <<>> THEN [c |-> c, stage_id |-> 0]
    ELSE FindOrCreateTicketStage(c, NewTicketStage(Cell(row, "Stato")))

\* html.escape(ch)
EscapeChar(ch) ==
    CASE ch = "&" -> <<"&", "a", "m", "p", ";">>
      [] ch = "<" -> <<"&", "l", "t", ";">>
      [] ch = ">" -> <<"&", "g", "t", ";">>
      [] ch = "\"" -> <<"&", "q", "u", "o", "t", ";">>
      [] ch = "'" -> <<"&", "#", "x", "2", "7", ";">>
      [] ch = "\n" -> <<"<", "b", "r", "/", ">">>
      [] OTHER -> <<ch>>
RECURSIVE EscapeText(_)
EscapeText(v) == IF v = <<>> THEN <<>> ELSE EscapeChar(Head(v)) \o EscapeText(Tail(v))
\* the description: escaped, line breaks as <br/>, wrapped in a paragraph
HtmlParagraph(v) == <<"<", "p", ">">> \o EscapeText(v) \o <<"<", "/", "p", ">">>

\* the 'user_id' branch: the wizard's user, else the user of that name, else
\* the current user
TicketUser(value, user_id) ==
    IF user_id # 0 THEN user_id
    ELSE IF \E i \in 1..Len(Users) : Ilike(Users[i].name, value)
    THEN First({i \in 1..Len(Users) : Ilike(Users[i].name, value)})
    ELSE EnvUser

\* the branches of the mapping loop that create nothing
TicketFields(row, st, user_id) ==
    LET v(col) == Cell(row, col)
    IN  Opt(v("Oggetto") # <<>>, "name", v("Oggetto"))
     @@ Opt(v("Codice") # <<>>, "number", v("Codice"))
     @@ Opt(v("Proprietario") # <<>>, "user_id", TicketUser(v("Proprietario"), user_id))
     @@ Opt(v("Cliente") # <<>> /\ PartnerByName(st, v("Cliente")) # 0,
            "partner_id", PartnerByName(st, v("Cliente")))
     @@ Opt(v("Cliente") # <<>> /\ PartnerByName(st, v("Cliente")) # 0,
            "partner_name", v("Cliente"))
     @@ Opt(v("Descrizione") # <<>>, "description", HtmlParagraph(v("Descrizione")))
     @@ DateField(row, "Data inizio effettiva", "assigned_date", date_formats)
     @@ DateField(row, "Data creazione", "create_date", date_formats)
     @@ DateField(row, "Data Pianificazione", "planned_date", date_formats)

\* the defaults set after the required-field check (the stage apart)
TicketDefaults(d) ==
    Put(d, "active", TRUE) @@ ("description" :> HtmlParagraph(<<>>))
                           @@ ("user_id" :> EnvUser)

\* the default stage: dg = [c, stage_id] with the stage 'Nuovo' found or created
TicketWithStage(dg, d) ==
    [c |-> dg.c, ok |-> TRUE, data |-> Put(TicketDefaults(d), "stage_id", dg.stage_id)]

\* _prepare_helpdesk_ticket_data after the stage lookup sg = TicketStage(c, row)
TicketAfterStage(sg, row, user_id) ==
    IF HasNone(row, TicketColumnsIn(7, 9))
    THEN [c |-> sg.c, ok |-> FALSE, data |-> EmptyDict]
    ELSE IF ~ Has(TicketFields(row, sg.c.tx, user_id), "name")
    THEN [c |-> LogImportError(sg.c), ok |-> FALSE, data |-> EmptyDict]
    ELSE IF sg.stage_id # 0
    THEN TicketWithStage(sg, TicketFields(row, sg.c.tx, user_id))
    ELSE TicketWithStage(
             FindOrCreateTicketStage(sg.c, [name |-> Txt_Nuovo, closed |-> FALSE,
                                            unattended |-> FALSE]),
             TicketFields(row, sg.c.tx, user_id))

\* _prepare_helpdesk_ticket_data(row, field_mapping): [c, ok, data]
PrepareHelpdeskTicketData(c, row, user_id) ==
    IF HasNone(row, TicketColumnsIn(1, 6))
    THEN [c |-> c, ok |-> FALSE, data |-> EmptyDict]
    ELSE TicketAfterStage(TicketStage(c, row), row, user_id)

\* _generate_ticket_number(): the next value of the sequence
TicketNumber(n) == <<"H", "T">> \o NumText(n)

\* the columns _update_helpdesk_ticket_sql sets
TicketUpdateColumns == {"name", "description", "user_id", "stage_id", "partner_id",
                        "partner_name", "assigned_date", "active"}
\* (the two other dates of the mapping inserted as well)
TicketInsertColumns_WithDates ==
    {"name", "description", "user_id", "stage_id", "partner_id", "partner_name",
     "assigned_date", "active", "create_date", "planned_date"}
\* the columns _create_helpdesk_ticket_sql inserts from ticket_data besides the
\* number
TicketInsertColumns == TicketUpdateColumns
\* datetime.now() as the statement formats it: the time of the insert, which
\* no cell of the file gives
ClockNow == <<"n", "o", "w">>
\* the columns the INSERT fills with values of its own: create_date
InsertStamps == ("create_date" :> ClockNow)

\* the values of d the statement writes
SqlValues(d, columns) == [k \in (DOMAIN d) \cap columns |-> d[k]]

\* _create_helpdesk_ticket_sql(ticket_data): the ticket inserted and committed,
\* or the statement fails and the transaction is rolled back
CreateHelpdeskTicketSql(c, d, fails) ==
    IF fails THEN Failed(LogImportError(Rollback(c)))
    ELSE IF Has(d, "number")
    THEN Outcome(Commit(WithTx(c, [c.tx EXCEPT !.ticket = Append(@,
                     Assign(BlankTicket, InsertStamps
                            @@ SqlValues(d, TicketInsertColumns \cup {"number"})))])),
                 "created", Len(c.tx.ticket) + 1,
                 SqlValues(d, TicketInsertColumns \cup {"number"}))
    ELSE Outcome(Commit(WithTx(c, [c.tx EXCEPT
                     !.ticket_seq = @ + 1,
                     !.ticket = Append(@, Assign(BlankTicket,
                         InsertStamps
                         @@ Put(SqlValues(d, TicketInsertColumns),
                                "number", TicketNumber(c.tx.ticket_seq + 1))))])),
                 "created", Len(c.tx.ticket) + 1,
                 Put(SqlValues(d, TicketInsertColumns),
                     "number", TicketNumber(c.tx.ticket_seq + 1)))

\* _update_helpdesk_ticket_sql(ticket_id, ticket_data)
UpdateHelpdeskTicketSql(c, id, d, fails) ==
    IF fails THEN Failed(LogImportError(Rollback(c)))
    ELSE Outcome(Commit(WithTx(c, [c.tx EXCEPT !.ticket[id] =
                                     Assign(@, SqlValues(d, TicketUpdateColumns))])),
                 "updated", id, SqlValues(d, TicketUpdateColumns))

\* the SELECT of _create_or_update_helpdesk_ticket: by number when the data has
\* one, else by name
ExistingTicket(st, d) ==
    First({i \in 1..Len(st.ticket) :
             IF Has(d, "number") THEN st.ticket[i].number = d["number"]
             ELSE st.ticket[i].name = d["name"]})

\* _create_or_update_helpdesk_ticket(ticket_data): an Outcome
CreateOrUpdateHelpdeskTicket(c, ticket_data, fails) ==
    IF ExistingTicket(c.tx, ticket_data) # 0
    THEN UpdateHelpdeskTicketSql(c, ExistingTicket(c.tx, ticket_data), ticket_data, fails)
    ELSE CreateHelpdeskTicketSql(c, ticket_data, fails)

\* ------------------------------------------------------------------ the wizard
VARIABLES
    db,           \* the committed record store
    tx,           \* the record store as the open cursor sees it
    wiz,          \* the wizard's fields: table_import, file, file_encoding, user_id
    pc,           \* "idle": no import running; "loop": inside the row loop
    csv_content,  \* the decoded text the csv reader parses
    run,          \* the locals of _import_<kind>: counters, errors, position
    result,       \* what the last call of action_import_file returned or raised
    runs,         \* number of requests so far
    prev,         \* what the call before the last one returned or raised
    installed     \* the modules whose ir.module.module state is 'installed'

vars == <<db, tx, wiz, pc, csv_content, run, result, runs, prev, installed>>

Kinds == {"partner", "person", "project", "activity", "helpdesk", "stock_lot"}
Modules == {"project", "stock", "helpdesk_mgmt"}
FileEncodings == {"auto", "utf-8", "cp1252", "iso-8859-1"}

\* a line on which the csv reader raises csv.Error
CsvErrorLine == <<"<csv.Error>">>

\* (no import checks for a module)
RequiredModule_None(kind) == ""

\* the module whose installation _import_<kind> checks ("" when it checks none)
RequiredModule(kind) ==
    CASE kind = "project" -> "project"
      [] kind = "stock_lot" -> "stock"
      [] kind = "helpdesk" -> "helpdesk_mgmt"
      [] OTHER -> ""

\* the kinds whose _import_<kind> begins with cr.commit()
CommitsFirst(kind) == kind # "project"

NoWizard == [table_import |-> "", file |-> [blob |-> <<>>, rows |-> <<>>],
             file_encoding |-> "auto", has_header |-> TRUE, user_id |-> 0]
NoRun == [idx |-> 0, created_count |-> 0, updated_count |-> 0, error_count |-> 0,
          errors |-> <<>>, log |-> <<>>, start |-> EmptyStore]
\* what a call returned or raised, with the wizard it was called on
NoResult == [type |-> "none", wizard |-> NoWizard,
             created |-> 0, updated |-> 0, errors |-> 0, status |-> "",
             message |-> <<>>]
UserError(w) == [type |-> "UserError", wizard |-> w,
                 created |-> 0, updated |-> 0, errors |-> 0, status |-> "",
                 message |-> <<>>]

\* action_import_file() up to the row loop of _import_<kind>: the file and kind
\* checks, the first commit, the module check, the decoding
\* [c, ok, text]; ok = FALSE when it raises UserError
BeginImport(c, w, mods) ==
    LET kind == w.table_import
        c0 == IF CommitsFirst(kind) THEN Commit(c) ELSE c
        t == TestProjectCreation(c0)
        c1 == IF kind = "project" THEN t.c ELSE c0
        d == DecodeFile(w.file_encoding, w.file.blob)
    IN  IF w.file.blob = <<>> \/ kind \notin Kinds
        THEN [c |-> c, ok |-> FALSE, text |-> <<>>]
        ELSE IF RequiredModule(kind) # "" /\ RequiredModule(kind) \notin mods
        THEN [c |-> c0, ok |-> FALSE, text |-> <<>>]
        ELSE IF kind = "project" /\ ~ t.ok
        THEN [c |-> c1, ok |-> FALSE, text |-> <<>>]
        ELSE IF ~ d.ok
        THEN [c |-> LogImportError(c1), ok |-> FALSE, text |-> <<>>]
        ELSE [c |-> c1, ok |-> TRUE, text |-> d.text]

\* the end of the request: a return commits, an exception rolls back
EndRequest(c, raised) == IF raised THEN Rollback(c) ELSE Commit(c)

\* action_import_file() is called with the wizard filled in as w
StartImport(inputs) ==
    /\ pc = "idle"
    /\ runs < MaxRuns
    /\ UNCHANGED installed
    /\ \E w \in inputs :
         LET b == BeginImport([db |-> db, tx |-> tx], w, installed)
             e == EndRequest(b.c, TRUE)
         IN  /\ runs' = runs + 1
             /\ prev' = result
             /\ IF b.ok
                THEN /\ pc' = "loop"
                     /\ wiz' = w
                     /\ csv_content' = b.text
                     /\ db' = b.c.db
                     /\ tx' = b.c.tx
                     /\ run' = [NoRun EXCEPT !.idx = 1, !.start = b.c.tx]
                     /\ result' = NoResult
                ELSE /\ pc' = "idle"
                     /\ wiz' = NoWizard
                     /\ csv_content' = <<>>
                     /\ db' = e.db
                     /\ tx' = e.tx
                     /\ run' = NoRun
                     /\ result' = UserError(w)

\* the csv reader raises inside `for row_num, row in enumerate(reader, start=2)`:
\* the outer except logs and raises UserError
ReaderRaises ==
    /\ pc = "loop"
    /\ run.idx <= Len(wiz.file.rows)
    /\ wiz.file.rows[run.idx] = CsvErrorLine
    /\ LET e == EndRequest(LogImportError([db |-> db, tx |-> tx]), TRUE)
       IN  /\ db' = e.db
           /\ tx' = e.tx
    /\ pc' = "idle"
    /\ wiz' = NoWizard
    /\ csv_content' = <<>>
    /\ result' = UserError(wiz)
    /\ run' = [run EXCEPT !.idx = 0]
    /\ UNCHANGED <<runs, prev, installed>>

\* the state after one iteration of the row loop: o = [c, action, id, vals] is
\* what the row's try block did; an "error" is the except branch of the loop
AfterRow(o) ==
    LET row_num == run.idx + 1
        c == IF o.action = "error" THEN LogImportError(o.c) ELSE o.c
    IN  /\ db' = c.db
        /\ tx' = c.tx
        /\ run' = [run EXCEPT
                     !.idx = @ + 1,
                     !.created_count = IF o.action = "created" THEN @ + 1 ELSE @,
                     !.updated_count = IF o.action = "updated" THEN @ + 1 ELSE @,
                     !.error_count = IF o.action = "error" THEN @ + 1 ELSE @,
                     !.errors = IF o.action = "error" THEN Append(@, row_num) ELSE @,
                     !.log = Append(@, [row_num |-> row_num, action |-> o.action,
                                        id |-> o.id, vals |-> o.vals])]
        /\ UNCHANGED <<wiz, pc, csv_content, result, runs, prev, installed>>

RowReady(kind) ==
    /\ pc = "loop"
    /\ wiz.table_import = kind
    /\ run.idx <= Len(wiz.file.rows)
    /\ wiz.file.rows[run.idx] # CsvErrorLine

\* the try block of the partner loop: p is what _prepare_partner_data returned
PartnerRowOutcome(p, vat_fails, cf_fails) ==
    IF p.ok THEN CreateOrUpdatePartner(p.c, p.data, vat_fails, cf_fails)
    ELSE Failed(p.c)

\* one iteration of the row loop of _import_partners
ImportPartnerRow ==
    /\ RowReady("partner")
    /\ \E vat_fails, cf_fails \in BOOLEAN :
         AfterRow(PartnerRowOutcome(
                    PreparePartnerData([db |-> db, tx |-> tx], wiz.file.rows[run.idx]),
                    vat_fails, cf_fails))

\* the try block of the person loop: p is what _prepare_person_data returned
PersonRowOutcome(p, vat_fails) ==
    IF p.ok THEN CreateOrUpdatePerson(p.c, p.data, vat_fails) ELSE Failed(p.c)

\* one iteration of the row loop of _import_persons
ImportPersonRow ==
    /\ RowReady("person")
    /\ \E vat_fails \in BOOLEAN :
         AfterRow(PersonRowOutcome(
                    PreparePersonData([db |-> db, tx |-> tx], wiz.file.rows[run.idx]),
                    vat_fails))

\* the try block of the project loop: p is what _prepare_project_data returned
ProjectRowOutcome(p, user_id) ==
    IF p.ok THEN CreateOrUpdateProject(p.c, p.data, user_id) ELSE Failed(p.c)

\* one iteration of the row loop of _import_projects
ImportProjectRow ==
    /\ RowReady("project")
    /\ AfterRow(ProjectRowOutcome(
                  PrepareProjectData([db |-> db, tx |-> tx], wiz.file.rows[run.idx]),
                  wiz.user_id))

\* the try block of the stock-lot loop: p is what _prepare_stock_lot_data returned
LotRowOutcome(p) ==
    IF p.ok THEN CreateOrUpdateStockLot(p.c, p.data) ELSE Failed(p.c)

\* one iteration of the row loop of _import_stock_lots
ImportLotRow ==
    /\ RowReady("stock_lot")
    /\ AfterRow(LotRowOutcome(
                  PrepareStockLotData([db |-> db, tx |-> tx], wiz.file.rows[run.idx])))

\* the try block of the activity loop: p is what _prepare_activity_data returned
ActivityRowOutcome(p, user_id) ==
    IF p.ok THEN CreateOrUpdateActivity(p.c, p.data, user_id) ELSE Failed(p.c)

\* one iteration of the row loop of _import_activities
ImportActivityRow ==
    /\ RowReady("activity")
    /\ AfterRow(ActivityRowOutcome(
                  PrepareActivityData([db |-> db, tx |-> tx], wiz.file.rows[run.idx]),
                  wiz.user_id))

\* the try block of the helpdesk loop: p is what _prepare_helpdesk_ticket_data
\* returned
TicketRowOutcome(p, fails) ==
    IF p.ok THEN CreateOrUpdateHelpdeskTicket(p.c, p.data, fails) ELSE Failed(p.c)

\* one iteration of the row loop of _import_helpdesk_tickets
ImportTicketRow ==
    /\ RowReady("helpdesk")
    /\ \E fails \in BOOLEAN :
         AfterRow(TicketRowOutcome(
                    PrepareHelpdeskTicketData([db |-> db, tx |-> tx],
                                              wiz.file.rows[run.idx], wiz.user_id),
                    fails))

\* the kinds whose _import_<kind> commits before returning
CommitsLast(kind) == kind \in {"project", "activity", "helpdesk", "stock_lot"}

\* the texts of the report and of the notification are sequences of pieces: a
\* literal piece is one string, a formatted number is its decimal digits
\* the header of the report and the labels of its count lines, per kind
ReportLabels(kind) ==
    CASE kind = "partner" ->
           [header |-> "Import completed:", created |-> "- Partner creati: ",
            updated |-> "- Partner aggiornati: "]
      [] kind = "person" ->
           [header |-> "Import persone completato:", created |-> "- Persone create: ",
            updated |-> "- Persone aggiornate: "]
      [] kind = "project" ->
           [header |-> "Import progetti completato:", created |-> "- Progetti creati: ",
            updated |-> "- Progetti aggiornati: "]
      [] kind = "stock_lot" ->
           [header |-> "Import lotti completato:", created |-> "- Lotti creati: ",
            updated |-> "- Lotti aggiornati: "]
      [] kind = "activity" ->
           [header |-> "Import attività completato:", created |-> "- Attività create: ",
            updated |-> "- Attività aggiornate: "]
      [] OTHER ->
           [header |-> "Import ticket helpdesk completato:",
            created |-> "- Ticket creati: ", updated |-> "- Ticket aggiornati: "]

\* the lines "- {error}" of the first 10 errors (an error is shown by its row
\* number) and the line counting the others
RECURSIVE ErrorLines(_, _)
ErrorLines(errors, i) ==
    IF i > Len(errors) THEN <<>>
    ELSE IF i > 10
    THEN <<"... e altri ">> \o NumText(Len(errors) - 10) \o <<" errori", "\n">>
    ELSE <<"- Row ">> \o NumText(errors[i]) \o <<"\n">> \o ErrorLines(errors, i + 1)

\* result_message: the header, the three count lines and the list of errors
\* (the lists of the names created and updated are left out)
result_message(kind, created_count, updated_count, error_count, errors) ==
    <<ReportLabels(kind).header, "\n", ReportLabels(kind).created>>
    \o NumText(created_count)
    \o <<"\n", ReportLabels(kind).updated>> \o NumText(updated_count)
    \o <<"\n", "- Errori: ">> \o NumText(error_count) \o <<"\n">>
    \o (IF errors = <<>> THEN <<>>
        ELSE <<"\n", "Errori riscontrati:", "\n">> \o ErrorLines(errors, 1))

\* the labels of the notification message, per kind
MessageLabels(kind) ==
    IF kind = "activity"
    THEN [created |-> "Create: ", updated |-> ", Aggiornate: "]
    ELSE [created |-> "Creati: ", updated |-> ", Aggiornati: "]

\* notification_msg
notification_msg(kind, created_count, updated_count, error_count) ==
    <<MessageLabels(kind).created>> \o NumText(created_count)
    \o <<MessageLabels(kind).updated>> \o NumText(updated_count)
    \o (IF error_count > 0 THEN <<", Errori: ">> \o NumText(error_count) ELSE <<>>)

\* (every notification reports success)
notification_type_Success(error_count) == "success"

\* the 'type' of the notification's params
notification_type(error_count) == IF error_count = 0 THEN "success" ELSE "warning"

\* after the last row: the report is stored in note and the notification returned
FinishImport ==
    /\ pc = "loop"
    /\ run.idx > Len(wiz.file.rows)
    /\ LET note == result_message(wiz.table_import, run.created_count,
                                  run.updated_count, run.error_count, run.errors)
           c0 == WithTx([db |-> db, tx |-> tx], [tx EXCEPT !.note = note])
           c1 == IF CommitsLast(wiz.table_import) THEN Commit(c0) ELSE c0
           e == EndRequest(c1, FALSE)
       IN  /\ db' = e.db
           /\ tx' = e.tx
    /\ result' = [type |-> "notification", wizard |-> wiz,
                  created |-> run.created_count, updated |-> run.updated_count,
                  errors |-> run.error_count,
                  status |-> notification_type(run.error_count),
                  message |-> notification_msg(wiz.table_import, run.created_count,
                                               run.updated_count, run.error_count)]
    /\ pc' = "idle"
    /\ wiz' = NoWizard
    /\ csv_content' = <<>>
    /\ run' = [run EXCEPT !.idx = 0]
    /\ UNCHANGED <<runs, prev, installed>>

\* ------------------------------------------------------------------ tasks
\* a request that creates a task through the ORM with the given project_code
CreateTaskRequest(codes) ==
    /\ pc = "idle"
    /\ runs < MaxRuns
    /\ \E code \in codes :
         LET n == CreateTask([db |-> db, tx |-> tx],
                             ("name" :> <<"t">>) @@ ("project_code" :> code))
             e == EndRequest(n.c, ~ n.ok)
         IN  /\ db' = e.db
             /\ tx' = e.tx
             /\ result' = [type |-> IF n.ok THEN "task" ELSE "ValidationError",
                           project_code |-> code]
    /\ runs' = runs + 1
    /\ prev' = result
    /\ UNCHANGED <<wiz, pc, csv_content, run, installed>>

\* a request that writes project_code on an existing task
WriteTaskRequest(codes) ==
    /\ pc = "idle"
    /\ runs < MaxRuns
    /\ \E id \in 1..Len(tx.task), code \in codes :
         LET st == [tx EXCEPT !.task[id].project_code = code]
             e == EndRequest([db |-> db, tx |-> st], ~ CheckProjectCodeFormat(code))
         IN  /\ db' = e.db
             /\ tx' = e.tx
             /\ result' = [type |-> IF CheckProjectCodeFormat(code)
                                    THEN "task" ELSE "ValidationError",
                           project_code |-> code]
    /\ runs' = runs + 1
    /\ prev' = result
    /\ UNCHANGED <<wiz, pc, csv_content, run, installed>>

\* ------------------------------------------------------------------ inputs
\* the files and stores the model is run on
AsciiBlob == <<67, 111>>
\* "é" in UTF-8; the euro sign in cp1252 (not UTF-8, a control character in
\* iso-8859-1); a byte cp1252 does not define; a UTF-8 byte order mark and a letter
Utf8Blob == <<195, 169>>
Cp1252Blob == <<128>>
UndefinedBlob == <<129>>
BomBlob == <<239, 187, 191, 67>>

BlankRow(cols) == [c \in cols |-> <<>>]
\* the row with the cells of d filled in and every other column blank
RowOf(cols, d) == d @@ BlankRow(cols)

Txt_c1 == <<"c", "1">>
Txt_c2 == <<"c", "2">>
Txt_a == <<"a">>
Txt_ab == <<"a", "b">>
Txt_B == <<"B">>
VatGood == <<"I", "T", "1", "2", "3", ".", "4", "5", "6", "-", "7">>
VatShort == <<"1", "2", "-", "3">>
VatSlash == <<"1", "2", "3", "4", "5", "6", "7", "8", "/">>
CfGood == <<"R", "S", "S">>
Txt_Acme == <<"A", "c", "m", "e">>
Txt_Zed == <<"Z", "e", "d">>
Txt_P1 == <<"P", "1">>
Txt_Pump == <<"P", "u", "m", "p">>
Txt_Valve == <<"V", "a", "l", "v", "e">>
Txt_K == <<"K">>
Txt_L0 == <<"L", "0">>
Txt_L1 == <<"L", "1">>
Txt_L2 == <<"L", "2">>

PartnerRows ==
    { RowOf(PartnerColumns, ("Codice" :> Txt_c1) @@ ("Nome Completo" :> Txt_a)
                            @@ ("Partita IVA" :> VatGood) @@ ("Codice fiscale" :> CfGood)),
      RowOf(PartnerColumns, ("Codice" :> Txt_c1) @@ ("Nome Completo" :> Txt_ab)
                            @@ ("Partita IVA" :> VatShort)),
      RowOf(PartnerColumns, ("Codice" :> Txt_c2) @@ ("Partita IVA" :> VatSlash)
                            @@ ("Fax" :> <<"9">>)),
      RowOf(PartnerColumns, ("Nome Completo" :> Txt_B)),
      RowOf(PartnerColumns, ("Codice" :> Txt_c2) @@ ("Nome Completo" :> NoneValue)) }

PersonRows ==
    { RowOf(PersonColumns,
            ("Azienda" :> Txt_B) @@ ("Referenti" :> Txt_a) @@ ("Codice" :> Txt_c1)
            @@ ("Partita IVA" :> VatGood)),
      RowOf(PersonColumns, ("Azienda" :> Txt_B) @@ ("Referenti" :> Txt_ab)
                           @@ ("Codice" :> Txt_c1)),
      RowOf(PersonColumns, ("Azienda" :> Txt_B) @@ ("Referenti" :> Txt_ab)
                           @@ ("Codice" :> Txt_c2)),
      RowOf(PersonColumns, ("Azienda" :> Txt_ab)),
      RowOf(PersonColumns, ("Azienda" :> Txt_B) @@ ("Referenti" :> NoneValue)) }

LotRows ==
    { RowOf(LotColumns, ("Matricola Interna" :> Txt_L0) @@ ("Nome prodotto" :> Txt_Pump)),
      RowOf(LotColumns, ("Matricola Interna" :> Txt_L1) @@ ("Codice prodotto" :> Txt_K)
                        @@ ("Nome prodotto" :> Txt_Pump)),
      RowOf(LotColumns, ("Matricola Interna" :> Txt_L2) @@ ("Codice prodotto" :> Txt_K)
                        @@ ("Nome prodotto" :> Txt_Valve)),
      RowOf(LotColumns, ("Nome prodotto" :> Txt_Valve)) }

\* rows that name a company, a person or a project
LinkPartnerRows ==
    { RowOf(PartnerColumns, ("Codice" :> Txt_c1) @@ ("Nome Completo" :> Txt_Acme)) }
LinkProjectRows ==
    { RowOf(ProjectColumns, ("Commessa" :> <<"p">>) @@ ("Codice" :> Txt_P1)
                            @@ ("Cliente" :> Txt_Acme)),
      RowOf(ProjectColumns, ("Commessa" :> <<"q">>) @@ ("Cliente" :> Txt_Zed)
                            @@ ("Stato" :> <<"c", "h", "i", "u", "s", "o">>)) }
LinkActivityRows ==
    { RowOf(ActivityColumnsIn(1, 10),
            ("Attività" :> <<"t">>) @@ ("Azienda" :> Txt_Acme)
            @@ ("Commessa" :> <<"P", "1", "-", "0", "1">>) @@ ("Referente" :> Txt_Zed)
            @@ ("Macro tipo" :> <<"m">>)),
      RowOf(ActivityColumnsIn(1, 10),
            ("Attività" :> <<"u">>) @@ ("Azienda" :> Txt_Zed)
            @@ ("Commessa" :> <<"X", "9", "-", "0", "1">>) @@ ("Fatta/da fare" :> <<"t", "o", " ", "d", "o">>)) }
LinkTicketRows ==
    { RowOf(TicketColumnsIn(1, 9), ("Oggetto" :> <<"h">>) @@ ("Cliente" :> Txt_Zed)),
      RowOf(TicketColumnsIn(1, 9), ("Oggetto" :> <<"h">>) @@ ("Codice" :> <<"T", "1">>)
                                   @@ ("Cliente" :> Txt_Acme)) }
LinkLotRows ==
    { RowOf(LotColumns, ("Matricola Interna" :> Txt_L0) @@ ("Nome prodotto" :> Txt_Pump)
                        @@ ("Azienda Locazione Macchina" :> Txt_Zed)),
      RowOf(LotColumns, ("Matricola Interna" :> Txt_L0) @@ ("Nome prodotto" :> Txt_Pump)
                        @@ ("Azienda Locazione Macchina" :> Txt_Acme)) }

\* the sequences of up to n lines over rows
RECURSIVE SeqsUpTo(_, _)
SeqsUpTo(rows, n) ==
    IF n = 0 THEN {<<>>}
    ELSE LET shorter == SeqsUpTo(rows, n - 1)
         IN  shorter \cup {Append(q, r) : q \in {x \in shorter : Len(x) = n - 1}, r \in rows}
\* the files of 1..n data lines
FilesOf(rows, n) == SeqsUpTo(rows, n) \ {<<>>}

\* csv.DictReader over a file whose first line is first and whose other lines
\* are rest (no line is empty): the first line gives the field names, each
\* other line a row; a line shorter than the first leaves None in the missing
\* fields, and of two fields of the same name the later one is kept
DictReader(first, rest) ==
    [i \in 1..Len(rest) |->
        [name \in {first[k] : k \in 1..Len(first)} |->
            LET k == Max({j \in 1..Len(first) : first[j] = name})
            IN  IF k <= Len(rest[i]) THEN rest[i][k] ELSE NoneValue]]

\* the rows as the mapping loop reads them (`csv_field in row and
\* row[csv_field].strip()`): a column the file does not have reads as blank
ReadRows(cols, first, rest) ==
    [i \in 1..Len(rest) |->
        [c \in cols |->
            IF c \in DOMAIN DictReader(first, rest)[i]
            THEN DictReader(first, rest)[i][c] ELSE <<>>]]

\* the field names csv.DictReader reads in csv_content for a file whose first
\* line gives the names in first and whose bytes end with the first letter of
\* the first name: the characters decoded before that letter are part of the
\* first field name
FieldNames(csv_text, first) ==
    IF Len(csv_text) <= 1 THEN first
    ELSE <<ToString(SubSeq(csv_text, 1, Len(csv_text) - 1)) \o first[1]>> \o Tail(first)

\* a wizard: file.rows are the rows the csv reader yields for the file
Wizard(kind, enc, user, blob, rows) ==
    [table_import |-> kind, file |-> [blob |-> blob, rows |-> rows],
     file_encoding |-> enc, has_header |-> TRUE, user_id |-> user]
\* the wizards of one kind over the files of 1..n lines of rows
WizardsOf(kind, rows, n) ==
    {Wizard(kind, "auto", 0, AsciiBlob, f) : f \in FilesOf(rows, n)}

PartnerInputs == WizardsOf("partner", PartnerRows \cup {CsvErrorLine}, MaxRows)
PersonInputs == WizardsOf("person", PersonRows \cup {CsvErrorLine}, MaxRows)
LotInputs == WizardsOf("stock_lot", LotRows, MaxLotRows)
LinkInputs ==
    WizardsOf("partner", LinkPartnerRows, MaxRows)
    \cup WizardsOf("project", LinkProjectRows, MaxRows)
    \cup WizardsOf("activity", LinkActivityRows, MaxRows)
    \cup WizardsOf("helpdesk", LinkTicketRows, MaxRows)
    \cup WizardsOf("stock_lot", LinkLotRows, MaxRows)

\* one well-formed line of each kind
SampleRow(kind) ==
    CASE kind = "partner" -> RowOf(PartnerColumns, ("Codice" :> Txt_c1))
      [] kind = "person" -> RowOf(PersonColumns, ("Referenti" :> Txt_a))
      [] kind = "project" -> RowOf(ProjectColumns, ("Commessa" :> <<"p">>))
      [] kind = "activity" -> RowOf(ActivityColumnsIn(1, 10), ("Attività" :> <<"t">>))
      [] kind = "helpdesk" -> RowOf(TicketColumnsIn(1, 9), ("Oggetto" :> <<"h">>))
      [] kind = "stock_lot" -> RowOf(LotColumns, ("Matricola Interna" :> Txt_L0)
                                                 @@ ("Nome prodotto" :> Txt_Pump))
Blobs == {AsciiBlob, Utf8Blob, Cp1252Blob, UndefinedBlob, BomBlob}
StartInputs ==
    {Wizard(kind, enc, 0, blob, <<SampleRow(kind)>>) :
        kind \in Kinds, enc \in FileEncodings, blob \in Blobs}
    \cup {Wizard("partner", "auto", 0, <<>>, <<>>)}

\* project_code values written on tasks
TaskCodes ==
    { <<>>, <<"0", "0", "0", "0", "1", "-", "2", "4">>, <<"0", "0", "0", "0", "1", "-", "2", "4">> \o <<"\n">>, <<"0", "0", "0", "1", "-", "2", "4">>, <<"0", "0", "0", "0", "1", "-", "2">>, <<"0", "0", "0", "0", "1", "-", "2", "4", "5">>,
      <<"0", "0", "0", "0", "a", "-", "2", "4">>, <<"0", "0", "0", "0", "1", "_", "2", "4">>, <<"0", "0", "0", "0", "1", "-", "2", "4">> \o <<" ">>, <<"x">> \o <<"0", "0", "0", "0", "1", "-", "2", "4">>,
      <<"\n">> \o <<"0", "0", "0", "0", "1", "-", "2", "4">>, <<"1", "2", "3", "4", "5", "-", "6", "7">> }

\* the module states of a host on which this module is installed (it depends
\* on project)
ModuleStates == {m \in SUBSET Modules : "project" \in m}

InitWith(stores, mods) ==
    /\ db \in stores
    /\ tx = db
    /\ wiz = NoWizard
    /\ pc = "idle"
    /\ csv_content = <<>>
    /\ run = NoRun
    /\ result = NoResult
    /\ runs = 0
    /\ prev = NoResult
    /\ installed \in mods

\* an empty database with every module installed
Init == InitWith({EmptyStore}, {Modules})
\* an empty database, the optional modules installed or not
InitModules == InitWith({EmptyStore}, ModuleStates)

NextPartner ==
    \/ StartImport(PartnerInputs)
    \/ ImportPartnerRow
    \/ ReaderRaises
    \/ FinishImport
SpecPartner == Init /\ [][NextPartner]_vars

NextPerson ==
    \/ StartImport(PersonInputs)
    \/ ImportPersonRow
    \/ ReaderRaises
    \/ FinishImport
SpecPerson == Init /\ [][NextPerson]_vars

NextLot ==
    \/ StartImport(LotInputs)
    \/ ImportLotRow
    \/ FinishImport
SpecLot == Init /\ [][NextLot]_vars

NextLinks ==
    \/ StartImport(LinkInputs)
    \/ ImportPartnerRow
    \/ ImportProjectRow
    \/ ImportActivityRow
    \/ ImportTicketRow
    \/ ImportLotRow
    \/ FinishImport
SpecLinks == Init /\ [][NextLinks]_vars

NextStart ==
    \/ StartImport(StartInputs)
    \/ ImportPartnerRow
    \/ ImportPersonRow
    \/ ImportProjectRow
    \/ ImportActivityRow
    \/ ImportTicketRow
    \/ ImportLotRow
    \/ FinishImport
SpecStart == InitModules /\ [][NextStart]_vars

NextTask ==
    \/ CreateTaskRequest(TaskCodes)
    \/ WriteTaskRequest(TaskCodes)
SpecTask == Init /\ [][NextTask]_vars

\* partner files with and without a line of column names, the flag set or not
HeaderFirstLines == {<<"Codice", "Nome Completo">>, <<"c1", "a">>}
HeaderDataLines == {<<Txt_c1, Txt_a>>, <<Txt_c2, Txt_ab>>, <<Txt_c2>>}
HeaderInputs ==
    { [Wizard("partner", "auto", 0, AsciiBlob, ReadRows(PartnerColumns, first, rest))
         EXCEPT !.has_header = h] :
        h \in BOOLEAN, first \in HeaderFirstLines,
        rest \in SeqsUpTo(HeaderDataLines, MaxRows) }
NextHeader ==
    \/ StartImport(HeaderInputs)
    \/ ImportPartnerRow
    \/ FinishImport
SpecHeader == Init /\ [][NextHeader]_vars

\* partner files whose rows carry a well-formed VAT, a fiscal code, or both
\* with a fax number that becomes the comment
VatCfRows ==
    { ("Partita IVA" :> VatGood) @@ ("Codice fiscale" :> CfGood) @@ ("Fax" :> <<"9">>)
         @@ SampleRow("partner"),
      ("Codice" :> Txt_c2) @@ ("Partita IVA" :> VatGood) @@ SampleRow("partner"),
      ("Codice" :> Txt_c2) @@ ("Codice fiscale" :> CfGood) @@ SampleRow("partner") }
VatCfInputs == WizardsOf("partner", VatCfRows, MaxRows)
NextVatCf ==
    \/ StartImport(VatCfInputs)
    \/ ImportPartnerRow
    \/ FinishImport
SpecVatCf == Init /\ [][NextVatCf]_vars

\* project files whose Codice is blank, of the form NNNNN-NN, or of another form
ShapedCode == <<"0", "0", "0", "0", "1", "-", "2", "4">>
ProjectCodeRows ==
    { ("Commessa" :> n) @@ ("Codice" :> v) @@ SampleRow("project") :
        n \in {<<"p">>, <<"q">>}, v \in {<<>>, ShapedCode, Txt_P1} }
ProjectCodeInputs == WizardsOf("project", ProjectCodeRows, MaxRows)
NextProjectCode ==
    \/ StartImport(ProjectCodeInputs)
    \/ ImportProjectRow
    \/ FinishImport
SpecProjectCode == Init /\ [][NextProjectCode]_vars

\* a project file that gives a project the code P1, and activity files whose
\* Commessa is that code alone, with a suffix -NNNNNN-NN, and with a suffix -NN
SuffixedCode == Txt_P1 \o <<"-", "0", "0", "0", "0", "0", "1", "-", "2", "4">>
CommessaRows ==
    { ("Commessa" :> v) @@ SampleRow("activity") :
        v \in {Txt_P1, SuffixedCode, Txt_P1 \o <<"-", "0", "1">>} }
CommessaInputs ==
    WizardsOf("project", {("Codice" :> Txt_P1) @@ SampleRow("project")}, 1)
    \cup WizardsOf("activity", CommessaRows, MaxRows)
NextCommessa ==
    \/ StartImport(CommessaInputs)
    \/ ImportProjectRow
    \/ ImportActivityRow
    \/ FinishImport
SpecCommessa == Init /\ [][NextCommessa]_vars

\* partner, person and project files: imports that roll back a failed write,
\* and the import that creates and unlinks a test project
KeepInputs ==
    WizardsOf("partner", PartnerRows, MaxRows)
    \cup WizardsOf("person", PersonRows, MaxRows)
    \cup WizardsOf("project", LinkProjectRows, MaxRows)
NextKeep ==
    \/ StartImport(KeepInputs)
    \/ ImportPartnerRow
    \/ ImportPersonRow
    \/ ImportProjectRow
    \/ FinishImport
SpecKeep == Init /\ [][NextKeep]_vars

\* files of every kind: a line whose optional cells are malformed and the same
\* line with well-formed values
BadEmail == <<"a", "@">>
GoodEmail == <<"a", "@", "b", ".", "i", "t">>
BadZip == <<"1", "2">>
GoodZip == <<"0", "0", "1", "0", "0">>
BadDate == <<"3", "1", ".", "0", "3">>
GoodDate == <<"3", "1", "/", "0", "3", "/", "2", "0", "2", "4">>
DashDate == <<"3", "1", "-", "0", "3", "-", "2", "0", "2", "4">>
OptionalRows(kind) ==
    CASE kind = "partner" ->
           { ("E-mail" :> BadEmail) @@ ("Partita IVA" :> VatShort) @@ ("CAP" :> BadZip)
                @@ SampleRow(kind),
             ("E-mail" :> GoodEmail) @@ ("Partita IVA" :> VatGood) @@ ("CAP" :> GoodZip)
                @@ SampleRow(kind) }
      [] kind = "person" ->
           { ("E-mail" :> BadEmail) @@ ("Partita IVA" :> VatSlash) @@ SampleRow(kind),
             ("E-mail" :> GoodEmail) @@ ("Partita IVA" :> VatGood) @@ SampleRow(kind) }
      [] kind = "project" ->
           { ("Data fine effettiva" :> BadDate) @@ ("Data inizio pianificata" :> GoodDate)
                @@ SampleRow(kind),
             ("Data fine effettiva" :> DashDate) @@ SampleRow(kind) }
      [] kind = "activity" ->
           { ("Data" :> BadDate) @@ SampleRow(kind),
             ("Data" :> GoodDate) @@ SampleRow(kind) }
      [] kind = "helpdesk" ->
           { ("Data inizio effettiva" :> BadDate) @@ ("Data creazione" :> BadDate)
                @@ SampleRow(kind),
             ("Data inizio effettiva" :> GoodDate) @@ SampleRow(kind) }
      [] kind = "stock_lot" ->
           { ("Garanzia manodopera" :> DashDate) @@ ("Garanzia ricambi" :> BadDate)
                @@ SampleRow(kind),
             ("Garanzia manodopera" :> GoodDate) @@ SampleRow(kind) }
OptionalInputs == UNION { WizardsOf(kind, OptionalRows(kind), MaxRows) : kind \in Kinds }
NextOptional ==
    \/ StartImport(OptionalInputs)
    \/ ImportPartnerRow
    \/ ImportPersonRow
    \/ ImportProjectRow
    \/ ImportActivityRow
    \/ ImportTicketRow
    \/ ImportLotRow
    \/ FinishImport
SpecOptional == Init /\ [][NextOptional]_vars

\* files of every kind: a line that imports and a line with every cell blank
ReportColumns(kind) == DOMAIN SampleRow(kind)
ReportInputs ==
    UNION { WizardsOf(kind, {SampleRow(kind), BlankRow(ReportColumns(kind))}, MaxRows) :
              kind \in Kinds }
NextReport ==
    \/ StartImport(ReportInputs)
    \/ ImportPartnerRow
    \/ ImportPersonRow
    \/ ImportProjectRow
    \/ ImportActivityRow
    \/ ImportTicketRow
    \/ ImportLotRow
    \/ FinishImport
SpecReport == Init /\ [][NextReport]_vars

\* partner and person files whose phone and mobile cells (a pair of PhoneCells)
\* are blank, plain digits, or written with spaces, dashes, slashes and
\* parentheses
PlainPhone == <<"0", "2", "1">>
DashPhone == <<"0", "2", " ", "(", "1", ")", "/", "2", "-", "3">>
PhoneCells == {<<DashPhone, DashPhone>>, <<PlainPhone, DashPhone>>, <<<<>>, PlainPhone>>}
PhoneRows(kind) ==
    IF kind = "partner"
    THEN { ("Num.tel.1" :> pm[1]) @@ ("Cell." :> pm[2]) @@ SampleRow(kind) :
             pm \in PhoneCells }
    ELSE { ("Telefono 1" :> pm[1]) @@ ("Cellulare 1" :> pm[2]) @@ SampleRow(kind) :
             pm \in PhoneCells }
PhoneInputs ==
    WizardsOf("partner", PhoneRows("partner"), MaxRows)
    \cup WizardsOf("person", PhoneRows("person"), MaxRows)
NextPhone ==
    \/ StartImport(PhoneInputs)
    \/ ImportPartnerRow
    \/ ImportPersonRow
    \/ FinishImport
SpecPhone == Init /\ [][NextPhone]_vars

\* project, activity, helpdesk and stock-lot files of one line whose date cell
\* is written in each of the listed formats, in forms close to them, or in a
\* form no format reads; the user's timezone is unset or one hour east of UTC
DateStrings ==
    { <<"3", "1", "/", "0", "3", "/", "2", "0", "2", "4", " ", "1", ":", "0", "0">>,
      <<"3", "1", "/", "0", "3", "/", "2", "0", "2", "4", " ", "1", ":", "0", "0", ":", "0", "5">>,
      <<"3", "1", "/", "0", "3", "/", "2", "0", "2", "4">>,
      <<"2", "0", "2", "4", "-", "0", "3", "-", "3", "1", " ", "0", "1", ":", "0", "0", ":", "0", "0">>,
      <<"2", "0", "2", "4", "-", "0", "3", "-", "3", "1", " ", "0", "1", ":", "0", "0">>,
      <<"2", "0", "2", "4", "-", "0", "3", "-", "3", "1">>,
      <<"3", "1", "-", "0", "3", "-", "2", "0", "2", "4", " ", "1", ":", "0", "0">>,
      <<"3", "1", "-", "0", "3", "-", "2", "0", "2", "4">>,
      <<"1", "/", "2", "/", "2", "0", "2", "4">>,
      <<"0", "1", "-", "0", "2", "-", "2", "0", "2", "4">>,
      <<"2", "0", "2", "4", "-", "1", "-", "2">>,
      <<"0", "1", "/", "0", "1", "/", "2", "0", "2", "4", " ", " ", "0", ":", "3", "0">>,
      <<"3", "1", ".", "0", "3", ".", "2", "0", "2", "4">>,
      <<"2", "0", "2", "4", "/", "0", "3", "/", "3", "1">>,
      <<"3", "1", "/", "0", "3", "/", "2", "4">>,
      <<"3", "1", "/", "0", "4", "/", "2", "0", "2", "4">> }
\* the date column of each kind that is written to the record as parsed
DateColumn(kind) ==
    CASE kind = "project" -> "Data inizio pianificata"
      [] kind = "activity" -> "Data"
      [] kind = "helpdesk" -> "Data inizio effettiva"
      [] kind = "stock_lot" -> "Garanzia manodopera"
DateKinds == {"project", "activity", "helpdesk", "stock_lot"}
DateInputs ==
    UNION { WizardsOf(kind, {(DateColumn(kind) :> v) @@ SampleRow(kind) :
                               v \in DateStrings}, 1) : kind \in DateKinds }
InitDates ==
    InitWith({[EmptyStore EXCEPT !.user_tz = z] : z \in UserTimezones}, {Modules})
NextDates ==
    \/ StartImport(DateInputs)
    \/ ImportProjectRow
    \/ ImportActivityRow
    \/ ImportTicketRow
    \/ ImportLotRow
    \/ FinishImport
SpecDates == InitDates /\ [][NextDates]_vars

\* project, activity and helpdesk files whose rows name the same stage in
\* several spellings and the same tag in one or two columns
StageRows(kind) ==
    CASE kind = "project" ->
           { ("Stato" :> v) @@ SampleRow(kind) :
               v \in {<<"c", "h", "i", "u", "s", "o">>, Stage_Completato, <<"x">>, <<>>} }
      [] kind = "activity" ->
           { ("Fatta/da fare" :> <<"t", "o", " ", "d", "o">>) @@ ("Macro tipo" :> <<"m">>)
                @@ ("Tipo attività" :> <<"m">>) @@ SampleRow(kind),
             ("Fatta/da fare" :> activity_stage_mapping[<<"T", "O", " ", "D", "O">>])
                @@ ("Tipo attività" :> <<"n">>) @@ SampleRow(kind),
             ("Fatta/da fare" :> <<"x">>) @@ ("Macro tipo" :> <<"m">>)
                @@ ("Tipo attività" :> <<"n">>) @@ SampleRow(kind) }
      [] kind = "helpdesk" ->
           { ("Stato" :> v) @@ SampleRow(kind) :
               v \in {<<"a", "p", "e", "r", "t", "o">>, Txt_Nuovo, <<"x">>, <<>>} }
StageInputs ==
    UNION { WizardsOf(kind, StageRows(kind), MaxRows) :
              kind \in {"project", "activity", "helpdesk"} }
NextStages ==
    \/ StartImport(StageInputs)
    \/ ImportProjectRow
    \/ ImportActivityRow
    \/ ImportTicketRow
    \/ FinishImport
SpecStages == Init /\ [][NextStages]_vars

\* partner files whose first line is Codice, Nome Completo: the bytes up to
\* the C of Codice are that letter alone, or a UTF-8 byte order mark, a cut
\* byte order mark, a euro sign of cp1252, or a UTF-8 letter before it
LetterC == 67
BomFileStarts ==
    { <<LetterC>>, BomBytes \o <<LetterC>>, <<239, 187, LetterC>>,
      <<128, LetterC>>, <<195, 169, LetterC>> }
BomFirstLine == <<"Codice", "Nome Completo">>
BomInputs ==
    { Wizard("partner", enc, 0, blob,
             ReadRows(PartnerColumns,
                      FieldNames(DecodeFile(enc, blob).text, BomFirstLine), rest)) :
        enc \in FileEncodings, blob \in BomFileStarts,
        rest \in FilesOf({<<Txt_c1, Txt_a>>}, MaxRows) }
NextBom ==
    \/ StartImport(BomInputs)
    \/ ImportPartnerRow
    \/ FinishImport
SpecBom == Init /\ [][NextBom]_vars

\* partner files whose NAZIONE and Prov. (a pair of CountryCells) are blank,
\* Italy or France with a province code both countries have, or unknown codes
CodeFR == <<"F", "R">>
CodeMI == <<"M", "I">>
CountryCells ==
    { <<CodeFR, CodeMI>>, <<CodeIT, CodeMI>>, <<<<>>, CodeMI>>,
      <<<<"X", "X">>, <<"Z", "Z">>>>, <<CodeFR, <<>>>> }
CountryRows ==
    { ("NAZIONE" :> np[1]) @@ ("Prov." :> np[2]) @@ SampleRow("partner") :
        np \in CountryCells }
CountryInputs == WizardsOf("partner", CountryRows, MaxRows)
NextCountry ==
    \/ StartImport(CountryInputs)
    \/ ImportPartnerRow
    \/ FinishImport
SpecCountry == Init /\ [][NextCountry]_vars

\* helpdesk files whose rows give a creation date, a planning date, both or
\* neither, under one Oggetto (so that a second row updates the ticket)
TicketDateRows ==
    { ("Data creazione" :> cd) @@ ("Data Pianificazione" :> pd) @@ SampleRow("helpdesk") :
        cd \in {<<>>, GoodDate}, pd \in {<<>>, DashDate} }
TicketDateInputs == WizardsOf("helpdesk", TicketDateRows, MaxRows)
NextTicketDates ==
    \/ StartImport(TicketDateInputs)
    \/ ImportTicketRow
    \/ FinishImport
SpecTicketDates == Init /\ [][NextTicketDates]_vars

\* project files imported by a wizard whose User is not selected (0) or is a
\* user, the rows naming one of two projects
AssigneeRows == { ("Commessa" :> n) @@ SampleRow("project") : n \in {<<"p">>, <<"q">>} }
AssigneeInputs ==
    { Wizard("project", "auto", user, AsciiBlob, f) :
        user \in {0} \cup (1..Len(Users)), f \in FilesOf(AssigneeRows, MaxRows) }
NextAssignee ==
    \/ StartImport(AssigneeInputs)
    \/ ImportProjectRow
    \/ FinishImport
SpecAssignee == Init /\ [][NextAssignee]_vars

\* ------------------------------------------------------------------ properties
\* the record tables of a store (everything but the log, the stored report
\* and the ticket number sequence)
Business(st) ==
    [partner |-> st.partner, project |-> st.project,
     project_stage |-> st.project_stage, task |-> st.task,
     task_type |-> st.task_type, tags |-> st.tags, ticket |-> st.ticket,
     ticket_stage |-> st.ticket_stage, lot |-> st.lot, product |-> st.product]

\* the last two calls imported the same file, and the first reported no error
Reimported ==
    /\ pc = "idle"
    /\ prev.type = "notification"
    /\ prev.errors = 0
    /\ result.type = "notification"
    /\ result.wizard = prev.wizard
    /\ result.wizard.table_import \in {"partner", "project", "stock_lot"}

\* C1: when a partner, project or stock-lot file that imported without error is
\* imported again, the second run reports 0 created and one updated per row,
\* and leaves as many partner, project and lot records as the first run did
C1_ReimportIdempotent ==
    Reimported =>
        /\ result.created = 0
        /\ result.updated = Len(result.wizard.file.rows)
        /\ Len(db.partner) = Len(run.start.partner)
        /\ Len(db.project) = Len(run.start.project)
        /\ Len(db.lot) = Len(run.start.lot)

\* a second import of an error-free stock-lot file that created a lot
C1_SecondRunCreates ==
    /\ Reimported
    /\ result.created > 0
    /\ Len(db.lot) > Len(run.start.lot)

\* the columns the claims call required, per import kind
RequiredColumns(kind) ==
    CASE kind = "partner" -> {"Codice", "Nome Completo"}
      [] kind = "person" -> {"Referenti"}
      [] kind = "project" -> {"Commessa"}
      [] kind = "activity" -> {"Attività"}
      [] kind = "helpdesk" -> {"Oggetto"}
      [] kind = "stock_lot" -> {"Matricola Interna"}
      [] OTHER -> {}

\* this step is one iteration of the row loop
RowStep ==
    /\ pc = "loop"
    /\ run.idx <= Len(wiz.file.rows)
    /\ wiz.file.rows[run.idx] # CsvErrorLine
    /\ run'.idx = run.idx + 1

\* the row about to be processed has every cell filled in by the reader and a
\* required cell blank
BlankRequired ==
    LET row == wiz.file.rows[run.idx]
    IN  /\ ~ HasNone(row, DOMAIN row)
        /\ \E col \in RequiredColumns(wiz.table_import) : Cell(row, col) = <<>>

\* C2: a row whose required field is blank adds exactly one to the error count,
\* creates no record of any model (no auto-created company either), and the
\* loop goes on to the following row
C2_BlankRequiredRow ==
    [][ (RowStep /\ BlankRequired) =>
          /\ run'.error_count = run.error_count + 1
          /\ run'.created_count = run.created_count
          /\ run'.updated_count = run.updated_count
          /\ Business(tx') = Business(tx)
          /\ pc' = "loop" ]_vars

\* a person row with a blank Referenti has been counted as an error and the
\* company it named is in the store
C2_BlankRowLeftCompany ==
    /\ pc = "loop"
    /\ wiz.table_import = "person"
    /\ run.log # <<>>
    /\ run.log[Len(run.log)].action = "error"
    /\ Cell(wiz.file.rows[run.idx - 1], "Referenti") = <<>>
    /\ ~ HasNone(wiz.file.rows[run.idx - 1], PersonColumns)
    /\ Len(tx.partner) > Len(run.start.partner)

\* the partner row about to be processed is importable, names no partner the
\* store already has, and carries a Partita IVA that fails the format check
InvalidVatRow ==
    LET row == wiz.file.rows[run.idx]
    IN  /\ wiz.table_import = "partner"
        /\ ~ HasNone(row, DOMAIN row)
        /\ Cell(row, "Codice") # <<>>
        /\ ~ \E i \in 1..Len(tx.partner) : tx.partner[i].ref = Cell(row, "Codice")
        /\ Cell(row, "Partita IVA") # <<>>
        /\ ~ VatFormatOk(Cell(row, "Partita IVA"))

\* the comment of partner id holds a note about an invalid VAT
HasVatNote(st, id) ==
    \E k \in 1..Len(st.partner[id].comment) :
        st.partner[id].comment[k].tag = "Partita IVA non valida"

\* C3: a partner row whose Partita IVA fails the format check still creates the
\* partner, leaves its vat unset, and appends a note recording the invalid VAT
\* to the partner's comment
C3_InvalidVatNoted ==
    [][ (RowStep /\ InvalidVatRow) =>
          LET entry == run'.log[Len(run'.log)]
          IN  /\ entry.action = "created"
              /\ entry.id \in 1..Len(tx'.partner)
              /\ tx'.partner[entry.id].vat = <<>>
              /\ HasVatNote(tx', entry.id) ]_vars

\* a partner created from a row with a format-invalid Partita IVA, with no vat
\* and no note about it
C3_CreatedWithoutNote ==
    /\ pc = "loop"
    /\ wiz.table_import = "partner"
    /\ run.log # <<>>
    /\ LET entry == run.log[Len(run.log)]
           row == wiz.file.rows[run.idx - 1]
       IN  /\ entry.action = "created"
           /\ row # CsvErrorLine
           /\ ~ HasNone(row, DOMAIN row)
           /\ Cell(row, "Partita IVA") # <<>>
           /\ ~ VatFormatOk(Cell(row, "Partita IVA"))
           /\ entry.id \in 1..Len(tx.partner)
           /\ tx.partner[entry.id].vat = <<>>
           /\ ~ HasVatNote(tx, entry.id)

\* C3 (as the code has it): a partner row whose Partita IVA fails the format
\* check still creates the partner; the VAT is dropped before anything is
\* written, so the partner's vat stays unset, the written data has no vat, and
\* no note about the VAT is appended to the comment
C3_InvalidVatDropped ==
    [][ (RowStep /\ InvalidVatRow) =>
          LET entry == run'.log[Len(run'.log)]
          IN  /\ entry.action = "created"
              /\ entry.id \in 1..Len(tx'.partner)
              /\ ~ Has(entry.vals, "vat")
              /\ tx'.partner[entry.id].vat = <<>>
              /\ ~ HasVatNote(tx', entry.id) ]_vars

\* the cells that name a partner or a project, with the field each one fills
LinkCells(kind) ==
    CASE kind = "project" ->
            {[col |-> "Cliente", field |-> "partner_id", table |-> "partner"]}
      [] kind = "activity" ->
            {[col |-> "Azienda", field |-> "partner_id", table |-> "partner"],
             [col |-> "Referente", field |-> "partner_ref_id", table |-> "partner"],
             [col |-> "Commessa", field |-> "project_id", table |-> "project"]}
      [] kind = "helpdesk" ->
            {[col |-> "Cliente", field |-> "partner_id", table |-> "partner"]}
      [] kind = "stock_lot" ->
            {[col |-> "Azienda Locazione Macchina", field |-> "rental_company_id",
              table |-> "partner"]}
      [] OTHER -> {}

\* the cell is filled in and no record of the store matches it: no partner whose
\* name contains it (case-insensitively), no project with its code
Unresolved(st, cell, value) ==
    /\ value # <<>>
    /\ IF cell.table = "partner"
       THEN ~ \E i \in 1..Len(st.partner) : Ilike(st.partner[i].name, value)
       ELSE ~ \E i \in 1..Len(st.project) :
                  st.project[i].code \in {value, CleanProjectCode(value)}

\* the row about to be processed has every cell filled in by the reader and
\* its required cell non-blank
WellFormedRow ==
    LET row == wiz.file.rows[run.idx]
    IN  /\ ~ HasNone(row, DOMAIN row)
        /\ \A col \in RequiredColumns(wiz.table_import) : Cell(row, col) # <<>>

\* the database refused the ticket's SQL statement: the same row is counted
\* created or updated when it does not
TicketSqlRefused ==
    /\ wiz.table_import = "helpdesk"
    /\ TicketRowOutcome(PrepareHelpdeskTicketData([db |-> db, tx |-> tx],
                                                  wiz.file.rows[run.idx], wiz.user_id),
                        FALSE).action \in {"created", "updated"}

\* the step adds no project, but for the one a project row created for itself
OwnRecordOnly(entry) ==
    IF wiz.table_import = "project" /\ entry.action = "created"
    THEN /\ Len(tx'.project) = Len(tx.project) + 1
         /\ entry.id = Len(tx'.project)
         /\ SubSeq(tx'.project, 1, Len(tx.project)) = tx.project
    ELSE Len(tx'.project) = Len(tx.project)

\* C4: in a project, activity, helpdesk or stock-lot row, a partner name or
\* project code that matches no record leaves its link field out of the written
\* data, creates no partner and no project, and the row is counted created or
\* updated, not as an error
C4_UnresolvedLinkLeftUnset ==
    [][ (RowStep /\ WellFormedRow) =>
          \A cell \in LinkCells(wiz.table_import) :
             Unresolved(tx, cell, Cell(wiz.file.rows[run.idx], cell.col)) =>
                LET entry == run'.log[Len(run'.log)]
                IN  /\ ~ Has(entry.vals, cell.field)
                    /\ tx'.partner = tx.partner
                    /\ OwnRecordOnly(entry)
                    /\ \/ entry.action \in {"created", "updated"}
                       \/ TicketSqlRefused ]_vars

\* a row of the given kind has been counted created or updated with a link
\* cell that matches no record and its field absent from the written data
LinkLeftUnset(kind) ==
    /\ pc = "loop"
    /\ wiz.table_import = kind
    /\ run.log # <<>>
    /\ run.log[Len(run.log)].action \in {"created", "updated"}
    /\ \E cell \in LinkCells(kind) :
          /\ Unresolved(tx, cell, Cell(wiz.file.rows[run.idx - 1], cell.col))
          /\ ~ Has(run.log[Len(run.log)].vals, cell.field)
\* an activity row imported against a store with a partner: its Azienda is
\* linked, its Referente and its Commessa match nothing and are left out
C4_UnresolvedLinkImported ==
    /\ LinkLeftUnset("activity")
    /\ Len(tx.partner) > 0
    /\ Has(run.log[Len(run.log)].vals, "partner_id")
    /\ ~ Has(run.log[Len(run.log)].vals, "partner_ref_id")
    /\ ~ Has(run.log[Len(run.log)].vals, "project_id")

\* exactly five digits, a hyphen and two digits
ExactShape(v) ==
    /\ Len(v) = 8
    /\ \A i \in {1, 2, 3, 4, 5, 7, 8} : v[i] \in Digits
    /\ v[6] = "-"

\* C5: the task constraint on project_code raises ValidationError for every
\* non-empty value that is not exactly five digits, a hyphen and two digits,
\* and accepts every value of that shape and the empty value
C5_ProjectCodeShape ==
    (pc = "idle" /\ result.type \in {"task", "ValidationError"}) =>
        (result.type = "ValidationError"
            <=> (result.project_code # <<>> /\ ~ ExactShape(result.project_code)))

\* a task saved with a project_code that is the shape followed by a line feed
C5_TrailingNewlineAccepted ==
    /\ result.type = "task"
    /\ Len(result.project_code) = 9
    /\ ExactShape(SubSeq(result.project_code, 1, 8))
    /\ result.project_code[9] = "\n"
    /\ \E i \in 1..Len(db.task) : db.task[i].project_code = result.project_code

\* C6: after any sequence of import runs no two partners share a non-empty ref,
\* no two projects share a non-empty code, and no two stock lots share the
\* same (name, product) pair
C6_KeysUnique ==
    pc = "idle" =>
        /\ \A i, j \in 1..Len(db.partner) :
             (i # j /\ db.partner[i].ref # <<>>) => db.partner[i].ref # db.partner[j].ref
        /\ \A i, j \in 1..Len(db.project) :
             (i # j /\ db.project[i].code # <<>>) => db.project[i].code # db.project[j].code
        /\ \A i, j \in 1..Len(db.lot) :
             i # j => <<db.lot[i].name, db.lot[i].product_id>>
                        # <<db.lot[j].name, db.lot[j].product_id>>

\* a finished person import that counted an error and left two committed
\* partners with the same non-empty ref
C6_DuplicateRefCommitted ==
    /\ pc = "idle"
    /\ result.type = "notification"
    /\ result.wizard.table_import = "person"
    /\ result.errors > 0
    /\ \E i, j \in 1..Len(db.partner) :
          i # j /\ db.partner[i].ref # <<>> /\ db.partner[i].ref = db.partner[j].ref

\* the step returns the notification of the run under way
RunEnds ==
    /\ pc = "loop"
    /\ pc' = "idle"
    /\ result'.type = "notification"

\* C7: a row whose processing raises is caught: an error entry with the row's
\* number is appended and the loop goes on; and nothing a failed row wrote is
\* in the store when the run ends, so a run whose rows all failed leaves the
\* record tables as they were when it started
C7_FailedRowLeavesNothing ==
    [][ /\ (RowStep /\ run'.log[Len(run'.log)].action = "error") =>
              /\ run'.errors = Append(run.errors, run.idx + 1)
              /\ run'.error_count = run.error_count + 1
              /\ pc' = "loop"
        /\ (RunEnds /\ run.created_count = 0 /\ run.updated_count = 0) =>
              Business(db') = Business(run.start) ]_vars

\* a finished person import in which no row was counted created or updated,
\* and the store has more partners than when it started
C7_FailedRowsLeftRecords ==
    /\ pc = "idle"
    /\ result.type = "notification"
    /\ result.wizard.table_import = "person"
    /\ result.created = 0
    /\ result.updated = 0
    /\ result.errors = Len(result.wizard.file.rows)
    /\ Len(db.partner) > Len(run.start.partner)

\* the table an import kind writes its records to
TableOf(st, kind) ==
    CASE kind \in {"partner", "person"} -> st.partner
      [] kind = "project" -> st.project
      [] kind = "activity" -> st.task
      [] kind = "helpdesk" -> st.ticket
      [] kind = "stock_lot" -> st.lot

\* record id of the table holds the values a row wrote (the comment apart,
\* which later SQL updates append to)
HoldsValues(table, id, vals) ==
    /\ id \in 1..Len(table)
    /\ \A f \in (DOMAIN vals \cap DOMAIN table[id]) \ {"comment"} :
          table[id][f] = vals[f]

\* C8: when a run ends, every row it counted created or updated has its record
\* in the store with the values the row wrote, unless a later counted row wrote
\* the same record again
C8_CountedRowsPersist ==
    (pc = "idle" /\ result.type = "notification") =>
        \A k \in 1..Len(run.log) :
            (/\ run.log[k].action \in {"created", "updated"}
             /\ \A m \in (k + 1)..Len(run.log) : run.log[m].id # run.log[k].id)
            => HoldsValues(TableOf(db, result.wizard.table_import),
                           run.log[k].id, run.log[k].vals)

\* a finished person import whose only row was counted updated while the
\* person's ref in the store is not the row's Codice
C8_CountedButNotWritten ==
    /\ pc = "idle"
    /\ result.type = "notification"
    /\ result.wizard.table_import = "person"
    /\ Len(run.log) = 1
    /\ run.log[1].action = "updated"
    /\ run.log[1].id \in 1..Len(db.partner)
    /\ Has(run.log[1].vals, "ref")
    /\ db.partner[run.log[1].id].ref # run.log[1].vals["ref"]

\* the module each import kind needs, as the claims name them
PrerequisiteModule(kind) ==
    CASE kind = "project" -> {"project"}
      [] kind = "stock_lot" -> {"stock"}
      [] kind = "helpdesk" -> {"helpdesk_mgmt"}
      [] OTHER -> {}

\* the step is a call of action_import_file, on the wizard Called
CallStep == pc = "idle" /\ runs' = runs + 1 /\ result'.type # "task"
Called == IF pc' = "loop" THEN wiz' ELSE result'.wizard

\* the call is on a wizard with a file whose kind lacks its module, or whose
\* explicitly selected encoding does not decode the file
FileLevelFailure(w) ==
    /\ w.file.blob # <<>>
    /\ w.table_import \in Kinds
    /\ \/ ~ (PrerequisiteModule(w.table_import) \subseteq installed)
       \/ /\ w.file_encoding # "auto"
          /\ ~ Decode(w.file_encoding, w.file.blob).ok

\* C9: when the file does not decode under the explicitly selected encoding, or
\* the module the kind needs is not installed, the call ends with a UserError,
\* processes no row, creates or updates no business record and stores no report
C9_FileLevelAbort ==
    [][ (CallStep /\ FileLevelFailure(Called)) =>
          /\ result'.type = "UserError"
          /\ pc' = "idle"
          /\ run' = NoRun
          /\ Business(db') = Business(db)
          /\ Business(tx') = Business(db)
          /\ db'.note = db.note ]_vars

\* two calls ended with a UserError: one for a stock-lot or helpdesk file whose
\* module is missing, one for a file its explicit encoding cannot decode
C9_BothAbortsSeen ==
    /\ pc = "idle"
    /\ prev.type = "UserError"
    /\ ~ (PrerequisiteModule(prev.wizard.table_import) \subseteq installed)
    /\ Decode("utf-8", prev.wizard.file.blob).ok
    /\ result.type = "UserError"
    /\ PrerequisiteModule(result.wizard.table_import) \subseteq installed
    /\ result.wizard.file_encoding \in {"utf-8", "cp1252"}
    /\ ~ Decode(result.wizard.file_encoding, result.wizard.file.blob).ok
    /\ Business(db) = Business(EmptyStore)
    /\ db.note = <<>>

\* the order the claims give for the encodings tried under 'auto'
AutoOrder == <<"utf-8", "utf-8-sig", "cp1252", "iso-8859-1", "latin1">>
Decodes(b) == {i \in 1..Len(AutoOrder) : Decode(AutoOrder[i], b).ok}

\* the call is on a wizard set to 'auto' whose file and module checks pass
AutoCall(w) ==
    /\ w.file.blob # <<>>
    /\ w.table_import \in Kinds
    /\ PrerequisiteModule(w.table_import) \subseteq installed
    /\ w.file_encoding = "auto"

\* C10: with encoding 'auto' the text parsed is the decoding of the blob under
\* the first of utf-8, utf-8-sig, cp1252, iso-8859-1, latin1 that decodes it,
\* and the call fails with a UserError exactly when none of the five does
C10_AutoFirstDecoder ==
    [][ (CallStep /\ AutoCall(Called)) =>
          IF Decodes(Called.file.blob) # {}
          THEN /\ pc' = "loop"
               /\ csv_content' =
                    Decode(AutoOrder[Min(Decodes(Called.file.blob))], Called.file.blob).text
          ELSE /\ pc' = "idle"
               /\ result'.type = "UserError" ]_vars

\* an 'auto' import is parsing a file that utf-8 and utf-8-sig refuse, decoded
\* as cp1252 (which differs from its iso-8859-1 reading)
C10_FellBackToCp1252 ==
    /\ pc = "loop"
    /\ wiz.file_encoding = "auto"
    /\ ~ Decode("utf-8", wiz.file.blob).ok
    /\ ~ Decode("utf-8-sig", wiz.file.blob).ok
    /\ Decode("cp1252", wiz.file.blob).ok
    /\ csv_content = Decode("cp1252", wiz.file.blob).text
    /\ csv_content # Decode("iso-8859-1", wiz.file.blob).text

\* the number of rows of the finished run whose outcome was action
Counted(action) ==
    Cardinality({i \in 1..Len(run.log) : run.log[i].action = action})

\* the digits that follow position i of a text
RECURSIVE DigitsFrom(_, _)
DigitsFrom(text, i) ==
    IF i > Len(text) \/ text[i] \notin Digits THEN <<>>
    ELSE <<text[i]>> \o DigitsFrom(text, i + 1)

\* the text has the label once, followed by the number n and nothing more of it
Carries(text, label, n) ==
    /\ Cardinality({i \in 1..Len(text) : text[i] = label}) = 1
    /\ \A i \in 1..Len(text) :
          text[i] = label => DigitsFrom(text, i + 1) = NumText(n)

\* C11: a run that completes returns a notification whose message carries the
\* number of rows created and the number updated, and the number of errors when
\* it is above zero; its status is 'success' exactly when no row failed and
\* 'warning' otherwise; and the report stored in the wizard's note carries the
\* same three counts
C11_NotificationCounts ==
    (pc = "idle" /\ result.type = "notification") =>
        LET kind == result.wizard.table_import
        IN  /\ Carries(result.message, MessageLabels(kind).created, Counted("created"))
            /\ Carries(result.message, MessageLabels(kind).updated, Counted("updated"))
            /\ Counted("error") > 0 =>
                  Carries(result.message, ", Errori: ", Counted("error"))
            /\ result.status = (IF Counted("error") = 0 THEN "success" ELSE "warning")
            /\ Carries(db.note, ReportLabels(kind).created, Counted("created"))
            /\ Carries(db.note, ReportLabels(kind).updated, Counted("updated"))
            /\ Carries(db.note, "- Errori: ", Counted("error"))

\* an activity import ended with one row created and one row failed, and
\* reported a warning
C11_WarningReported ==
    /\ pc = "idle"
    /\ result.type = "notification"
    /\ result.wizard.table_import = "activity"
    /\ result.status = "warning"
    /\ Counted("created") = 1
    /\ Counted("error") = 1
    /\ db.note # <<>>

\* the companies of a store whose name is exactly value
CompaniesNamed(st, value) ==
    {i \in 1..Len(st.partner) : st.partner[i].is_company /\ st.partner[i].name = value}

\* the person row about to be processed names a company
NamesCompany ==
    /\ wiz.table_import = "person"
    /\ ~ HasNone(wiz.file.rows[run.idx], PersonColumns)
    /\ Cell(wiz.file.rows[run.idx], "Azienda") # <<>>

\* C12: a person row whose Azienda names no existing company creates one bare
\* company with exactly that name and links the person to it; a row whose
\* Azienda names an existing company creates no company and links the person
\* to a company of that name
C12_CompanyByExactName ==
    [][ (RowStep /\ NamesCompany) =>
          LET value == Cell(wiz.file.rows[run.idx], "Azienda")
              entry == run'.log[Len(run'.log)]
              before == CompaniesNamed(tx, value)
              after == CompaniesNamed(tx', value)
              linked == entry.action \in {"created", "updated"} =>
                           tx'.partner[entry.id].parent_id \in after
          IN  IF before = {}
              THEN Cardinality(after) = 1 /\ linked
              ELSE /\ {i \in 1..Len(tx'.partner) : tx'.partner[i].is_company}
                        = {i \in 1..Len(tx.partner) : tx.partner[i].is_company}
                   /\ linked ]_vars

\* a person has been created under a company whose name is not the row's
\* Azienda value, and no company of that name is in the store
C12_LinkedToOtherCompany ==
    /\ pc = "loop"
    /\ wiz.table_import = "person"
    /\ run.log # <<>>
    /\ run.log[Len(run.log)].action = "created"
    /\ LET value == Cell(wiz.file.rows[run.idx - 1], "Azienda")
           person == tx.partner[run.log[Len(run.log)].id]
       IN  /\ value # <<>>
           /\ person.parent_id # 0
           /\ tx.partner[person.parent_id].is_company
           /\ tx.partner[person.parent_id].name # value
           /\ CompaniesNamed(tx, value) = {}

\* C13: has_header decides whether the first line of the file is taken as the
\* column names: with the flag set the lines after the first are the rows, and
\* they are numbered from 2; with the flag unset the first line is a row too,
\* and the rows are numbered from 1
C13_HeaderFlagDecides ==
    (pc = "idle" /\ result.type = "notification") =>
        LET after_first == Len(result.wizard.file.rows)
            offset == IF result.wizard.has_header THEN 1 ELSE 0
        IN  /\ Len(run.log) = after_first + 1 - offset
            /\ \A i \in 1..Len(run.log) : run.log[i].row_num = i + offset

\* a file imported with has_header unset: its first line was not processed as
\* a row, and the first row processed was reported as row 2
C13_FirstLineTakenAsHeader ==
    /\ pc = "idle"
    /\ result.type = "notification"
    /\ ~ result.wizard.has_header
    /\ Len(result.wizard.file.rows) = 1
    /\ Len(run.log) = 1
    /\ run.log[1].row_num = 2

\* the optional columns whose value is validated, with the field they map to
OptionalField(kind) ==
    CASE kind = "partner" ->
           ("E-mail" :> "email") @@ ("Partita IVA" :> "vat") @@ ("CAP" :> "zip")
      [] kind = "person" -> ("E-mail" :> "email") @@ ("Partita IVA" :> "vat")
      [] kind = "project" ->
           ("Data fine effettiva" :> "date") @@ ("Data inizio pianificata" :> "date_start")
      [] kind = "activity" -> ("Data" :> "planned_date_start")
      [] kind = "helpdesk" ->
           ("Data inizio effettiva" :> "assigned_date")
           @@ ("Data creazione" :> "create_date")
           @@ ("Data Pianificazione" :> "planned_date")
      [] kind = "stock_lot" ->
           ("Garanzia manodopera" :> "labor_warranty")
           @@ ("Garanzia ricambi" :> "parts_warranty")
           @@ ("Garanzia on site" :> "onsite_warranty")

\* the value v of column col is malformed: an e-mail the pattern does not
\* match, a VAT that fails the format check, a postal code that is not five
\* digits, a date that none of the kind's formats parses
Malformed(kind, col, v) ==
    CASE col = "E-mail" -> ~ EmailMatch(v)
      [] col = "Partita IVA" -> ~ VatFormatOk(v)
      [] col = "CAP" -> ~ (IsDigit(v) /\ Len(v) = 5)
      [] OTHER -> ~ \E i \in 1..Len(IF kind = "stock_lot" THEN lot_date_formats
                                                         ELSE date_formats) :
                       Strptime(v, (IF kind = "stock_lot" THEN lot_date_formats
                                                          ELSE date_formats)[i]).ok

\* the columns of the row about to be processed that hold a malformed value
MalformedCells ==
    {col \in DOMAIN OptionalField(wiz.table_import) :
        /\ Cell(wiz.file.rows[run.idx], col) # <<>>
        /\ Malformed(wiz.table_import, col, Cell(wiz.file.rows[run.idx], col))}

\* what the try block of the row loop can do with a row
RowOutcomes(kind, c, row, user_id) ==
    CASE kind = "partner" ->
           {PartnerRowOutcome(PreparePartnerData(c, row), vf, cf) : vf, cf \in BOOLEAN}
      [] kind = "person" ->
           {PersonRowOutcome(PreparePersonData(c, row), vf) : vf \in BOOLEAN}
      [] kind = "project" -> {ProjectRowOutcome(PrepareProjectData(c, row), user_id)}
      [] kind = "activity" -> {ActivityRowOutcome(PrepareActivityData(c, row), user_id)}
      [] kind = "helpdesk" ->
           {TicketRowOutcome(PrepareHelpdeskTicketData(c, row, user_id), f) :
              f \in BOOLEAN}
      [] kind = "stock_lot" -> {LotRowOutcome(PrepareStockLotData(c, row))}

\* C14: a malformed optional value is never the cause of a row error: the field
\* is left out of the data, and the row is counted and written exactly as the
\* same row with the malformed cells blank would be
C14_MalformedOptionalDropped ==
    [][ (RowStep /\ ~ HasNone(wiz.file.rows[run.idx], DOMAIN wiz.file.rows[run.idx])
                 /\ MalformedCells # {}) =>
          LET row == wiz.file.rows[run.idx]
              blanked == [col \in DOMAIN row |->
                            IF col \in MalformedCells THEN <<>> ELSE row[col]]
              entry == run'.log[Len(run'.log)]
          IN  /\ \A col \in MalformedCells :
                    ~ Has(entry.vals, OptionalField(wiz.table_import)[col])
              /\ \E o \in RowOutcomes(wiz.table_import, [db |-> db, tx |-> tx],
                                      blanked, wiz.user_id) :
                    /\ entry.action = o.action
                    /\ entry.vals = o.vals
                    /\ tx' = (IF o.action = "error" THEN LogImportError(o.c)
                                                    ELSE o.c).tx ]_vars

\* a partner row whose e-mail, VAT and postal code are all malformed has been
\* counted as created, and the partner has none of the three
C14_MalformedRowCreated ==
    /\ pc = "loop"
    /\ wiz.table_import = "partner"
    /\ run.log # <<>>
    /\ run.log[Len(run.log)].action = "created"
    /\ LET row == wiz.file.rows[run.idx - 1]
           partner == tx.partner[run.log[Len(run.log)].id]
       IN  /\ ~ EmailMatch(Cell(row, "E-mail")) /\ Cell(row, "E-mail") # <<>>
           /\ ~ VatFormatOk(Cell(row, "Partita IVA")) /\ Cell(row, "Partita IVA") # <<>>
           /\ Cell(row, "CAP") = BadZip
           /\ partner.email = <<>> /\ partner.vat = <<>> /\ partner.zip = <<>>

\* the tasks of a store that match activity data d: the same name, and the same
\* project when d has one
MatchingTasks(st, d) ==
    {i \in 1..Len(st.task) :
        /\ Has(d, "name") /\ st.task[i].name = d["name"]
        /\ (Has(d, "project_id") => st.task[i].project_id = d["project_id"])}

\* C15: an activity row that matches an existing task by name and project
\* updates that task and is counted as updated, and the number of tasks stays
\* the same
C15_MatchingActivityUpdates ==
    [][ (RowStep /\ wiz.table_import = "activity") =>
          LET entry == run'.log[Len(run'.log)]
          IN  (entry.action # "error" /\ MatchingTasks(tx, entry.vals) # {}) =>
                 /\ entry.action = "updated"
                 /\ entry.id \in MatchingTasks(tx, entry.vals)
                 /\ Len(tx'.task) = Len(tx.task) ]_vars

\* an activity file has been imported a second time: every row was counted as
\* created again, and the store holds two tasks of the same name and project
C15_ReimportDuplicatedTasks ==
    /\ pc = "idle"
    /\ result.type = "notification"
    /\ prev.type = "notification"
    /\ result.wizard = prev.wizard
    /\ result.wizard.table_import = "activity"
    /\ result.updated = 0
    /\ result.created = Len(result.wizard.file.rows)
    /\ \E i, j \in 1..Len(db.task) :
          /\ i < j
          /\ db.task[i].name = db.task[j].name
          /\ db.task[i].project_id = db.task[j].project_id

\* the record tables: partners, projects, tasks, tickets, lots, products,
\* stages and tags
RecordTables == DOMAIN Business(EmptyStore)

\* every record of store a is a record of store b
RecordsKept(a, b) ==
    \A t \in RecordTables : Len(Business(a)[t]) <= Len(Business(b)[t])

WriteFails ==
    LET c == [db |-> db, tx |-> tx]
        row == wiz.file.rows[run.idx]
        pa == PreparePartnerData(c, row)
        pe == PreparePersonData(c, row)
    IN  \/ /\ wiz.table_import = "partner"
           /\ pa.ok
           /\ ExistingPartner(pa.c.tx, WithoutVatCf(pa.data)) # 0
           /\ ~ WritePartner(pa.c, ExistingPartner(pa.c.tx, WithoutVatCf(pa.data)),
                             WithoutVatCf(pa.data)).ok
        \/ /\ wiz.table_import = "person"
           /\ pe.ok
           /\ ExistingPerson(pe.c.tx, pe.data) # 0
           /\ ~ WritePartner(pe.c, ExistingPerson(pe.c.tx, pe.data),
                             Del(pe.data, "vat")).ok

\* C17: when the write of a row's values to an existing record fails, only that
\* write is undone: every record the transaction held before the row is still
\* there, unchanged but for the row's own record, and the loop goes on
C17_RollbackUndoesOnlyTheWrite ==
    [][ (RowStep /\ WriteFails) =>
          LET entry == run'.log[Len(run'.log)]
          IN  /\ Len(tx'.partner) >= Len(tx.partner)
              /\ \A i \in 1..Len(tx.partner) :
                    i # entry.id => tx'.partner[i] = tx.partner[i]
              /\ pc' = "loop" ]_vars

\* a person import has ended whose first row created the company it named
\* (and failed on its blank name) and whose second row was counted as updated:
\* the store holds no company for the first row
C17_EarlierRowLost ==
    /\ pc = "idle"
    /\ result.type = "notification"
    /\ result.wizard.table_import = "person"
    /\ Len(run.log) = 2
    /\ run.log[1].action = "error"
    /\ ~ HasNone(result.wizard.file.rows[1], PersonColumns)
    /\ Cell(result.wizard.file.rows[1], "Azienda") # <<>>
    /\ run.log[2].action = "updated"
    /\ CompanyByName(db, Cell(result.wizard.file.rows[1], "Azienda")) = 0

\* the value ends in '-NNNNNN-NN': a hyphen, six digits, a hyphen, two digits
HasCodeSuffix(v) ==
    /\ Len(v) >= 10
    /\ v[Len(v) - 9] = "-"
    /\ \A i \in (Len(v) - 8)..(Len(v) - 3) : v[i] \in Digits
    /\ v[Len(v) - 2] = "-"
    /\ \A i \in (Len(v) - 1)..Len(v) : v[i] \in Digits

\* C18: the project of an activity row is looked up by its Commessa value with
\* the whole suffix '-NNNNNN-NN' removed when it ends in one, and by the value
\* unchanged when it has no '-'
C18_SuffixRemovedBeforeLookup ==
    [][ (RowStep /\ wiz.table_import = "activity") =>
          LET v == Cell(wiz.file.rows[run.idx], "Commessa")
              code == IF HasCodeSuffix(v) THEN SubSeq(v, 1, Len(v) - 10) ELSE v
              entry == run'.log[Len(run'.log)]
          IN  ( /\ entry.action # "error"
                /\ v # <<>>
                /\ HasCodeSuffix(v) \/ ~ \E i \in 1..Len(v) : v[i] = "-" ) =>
                 Get(entry.vals, "project_id", 0) = ProjectByCode(tx, code) ]_vars

\* an activity row whose Commessa is the code of an existing project followed
\* by '-000001-24' has been created without a project
C18_SuffixedCodeNotFound ==
    /\ pc = "loop"
    /\ wiz.table_import = "activity"
    /\ run.log # <<>>
    /\ run.log[Len(run.log)].action = "created"
    /\ LET v == Cell(wiz.file.rows[run.idx - 1], "Commessa")
       IN  /\ HasCodeSuffix(v)
           /\ ProjectByCode(tx, SubSeq(v, 1, Len(v) - 10)) # 0
           /\ tx.task[run.log[Len(run.log)].id].project_id = 0

\* C19 as stated: every stored project with a non-empty code has a code of the
\* form NNNNN-NN, and a project row whose Codice has another form is a row error
C19_ProjectCodesShaped ==
    /\ \A i \in 1..Len(db.project) :
          db.project[i].code # <<>> => ExactShape(db.project[i].code)
    /\ \A i \in 1..Len(run.log) :
          (pc = "loop" /\ wiz.table_import = "project"
             /\ Cell(wiz.file.rows[i], "Codice") # <<>>
             /\ ~ ExactShape(Cell(wiz.file.rows[i], "Codice")))
          => run.log[i].action = "error"

\* C19: a project row with a name and a Codice of any form, NNNNN-NN or not, is
\* counted as created or updated and its project carries that code; the only
\* constraint on a project's code is that no other project has it
C19_AnyProjectCodeImported ==
    [][ (RowStep /\ wiz.table_import = "project") =>
          LET row == wiz.file.rows[run.idx]
              entry == run'.log[Len(run'.log)]
          IN  (~ HasNone(row, DOMAIN row) /\ Cell(row, "Commessa") # <<>>
                 /\ Cell(row, "Codice") # <<>>) =>
                 /\ entry.action \in {"created", "updated"}
                 /\ tx'.project[entry.id].code = Cell(row, "Codice")
                 /\ \A i \in 1..Len(tx'.project) :
                       tx'.project[i].code = Cell(row, "Codice") => i = entry.id ]_vars

\* a project import has ended with no error and the store holds a project whose
\* code is not of the form NNNNN-NN
C19_UnshapedCodeStored ==
    /\ pc = "idle"
    /\ result.type = "notification"
    /\ result.wizard.table_import = "project"
    /\ result.errors = 0
    /\ \E i \in 1..Len(db.project) :
          db.project[i].code # <<>> /\ ~ ExactShape(db.project[i].code)

\* the comment of partner id holds a note about an invalid fiscal code
HasCfNote(st, id) ==
    \E k \in 1..Len(st.partner[id].comment) :
        st.partner[id].comment[k].tag = "Codice Fiscale non valido"

\* C20: VAT and fiscal code are handled separately: for a partner created from
\* a row that has both, each value is either stored or, when its update was
\* refused, noted in the comment, so when both updates fail both notes are in
\* the comment; and the comment still begins with what it held before
C20_BothNotesAppended ==
    [][ (RowStep /\ wiz.table_import = "partner") =>
          LET row == wiz.file.rows[run.idx]
              entry == run'.log[Len(run'.log)]
              partner == tx'.partner[entry.id]
              before == Get(entry.vals, "comment", <<>>)
          IN  ( /\ entry.action = "created"
                /\ Cell(row, "Partita IVA") # <<>>
                /\ VatFormatOk(Cell(row, "Partita IVA"))
                /\ Cell(row, "Codice fiscale") # <<>> ) =>
                 /\ partner.vat = Cell(row, "Partita IVA") \/ HasVatNote(tx', entry.id)
                 /\ \/ partner.l10n_it_codice_fiscale = Cell(row, "Codice fiscale")
                    \/ HasCfNote(tx', entry.id)
                 /\ Len(partner.comment) >= Len(before)
                 /\ SubSeq(partner.comment, 1, Len(before)) = before ]_vars

\* a partner created from a row with a VAT, a fiscal code and a fax number has
\* neither value stored, and its comment holds the fax and the note about the
\* fiscal code but no note about the VAT
C20_VatNoteLost ==
    /\ pc = "loop"
    /\ wiz.table_import = "partner"
    /\ run.log # <<>>
    /\ run.log[Len(run.log)].action = "created"
    /\ LET row == wiz.file.rows[run.idx - 1]
           id == run.log[Len(run.log)].id
       IN  /\ VatFormatOk(Cell(row, "Partita IVA"))
           /\ Cell(row, "Codice fiscale") # <<>>
           /\ Cell(row, "Fax") # <<>>
           /\ tx.partner[id].vat = <<>>
           /\ tx.partner[id].l10n_it_codice_fiscale = <<>>
           /\ tx.partner[id].comment # <<>>
           /\ tx.partner[id].comment[1].tag = "Fax"
           /\ HasCfNote(tx, id)
           /\ ~ HasVatNote(tx, id)

\* the characters the phone clean-up removes
PhoneChars == {" ", "-", "/", "(", ")"}
\* the csv column of the phone and of the mobile of each kind
PhoneColumn(kind, field) ==
    IF kind = "partner"
    THEN (IF field = "phone" THEN "Num.tel.1" ELSE "Cell.")
    ELSE (IF field = "phone" THEN "Telefono 1" ELSE "Cellulare 1")

\* C21: in partner and person import every phone and mobile value written to
\* a record is the cell of the row with its spaces, dashes, slashes and
\* parentheses removed, so it holds none of these characters
C21_PhonesCleaned ==
    (pc = "loop" /\ wiz.table_import \in {"partner", "person"}) =>
        \A i \in 1..Len(run.log) : \A field \in {"phone", "mobile"} :
            (run.log[i].action \in {"created", "updated"}
             /\ field \in DOMAIN run.log[i].vals) =>
                /\ run.log[i].vals[field] =
                      RemoveChars(Cell(wiz.file.rows[i],
                                       PhoneColumn(wiz.table_import, field)),
                                  PhoneChars)
                /\ \A k \in 1..Len(run.log[i].vals[field]) :
                      run.log[i].vals[field][k] \notin PhoneChars

\* a partner row was imported and the partner it created holds a phone and a
\* mobile with a dash and a parenthesis in them
C21_PartnerPhoneAsRead ==
    /\ pc = "loop"
    /\ wiz.table_import = "partner"
    /\ \E i \in 1..Len(run.log) :
          /\ run.log[i].action = "created"
          /\ run.log[i].id \in 1..Len(tx.partner)
          /\ tx.partner[run.log[i].id].phone = DashPhone
          /\ tx.partner[run.log[i].id].mobile = DashPhone

\* the field the date column of each kind is stored in
DateFieldOf(kind) ==
    CASE kind = "project" -> "date_start"
      [] kind = "activity" -> "planned_date_start"
      [] kind = "helpdesk" -> "assigned_date"
      [] kind = "stock_lot" -> "labor_warranty"
\* the ordered list of formats of each kind
FormatsOf(kind) == IF kind = "stock_lot" THEN lot_date_formats ELSE date_formats
\* the date/time values format fmt reads in the value
ValuesRead(value, fmt) ==
    {dt \in {DateTimeOf(f) : f \in StrptimeFrom(fmt, 1, value, 1)} : DateTimeOk(dt)}
\* the date/time values the listed formats read in the value
ValuesListed(value, formats) ==
    UNION {ValuesRead(value, formats[k]) : k \in 1..Len(formats)}
\* the text stored for the date/time dt: the activity import converts it from
\* the user's timezone to UTC first
StoredDate(kind, dt, user_tz) ==
    IF kind = "activity" THEN Strftime(AsUtc(dt, user_tz).dt) ELSE Strftime(dt)
\* the row the loop has just imported, and its date cell
DateRowDone ==
    /\ pc = "loop"
    /\ wiz.table_import \in DateKinds
    /\ Len(run.log) = 1
    /\ run.log[1].action \in {"created", "updated"}
DateCell == Cell(wiz.file.rows[1], DateColumn(wiz.table_import))

\* C22: the date stored for a date cell is fixed by the cell alone: all the
\* listed formats that match the cell read one and the same date/time value in
\* it, the value stored is that value (the value of the first format that
\* matches), and nothing is stored when no listed format matches
C22_DateFixedByString ==
    DateRowDone =>
        LET kind == wiz.table_import
            vals == run.log[1].vals
        IN  /\ Cardinality(ValuesListed(DateCell, FormatsOf(kind))) <= 1
            /\ ValuesListed(DateCell, FormatsOf(kind)) = {}
                  => DateFieldOf(kind) \notin DOMAIN vals
            /\ DateFieldOf(kind) \in DOMAIN vals
                  => /\ ValuesListed(DateCell, FormatsOf(kind)) # {}
                     /\ \A dt \in ValuesListed(DateCell, FormatsOf(kind)) :
                           /\ vals[DateFieldOf(kind)] = StoredDate(kind, dt, tx.user_tz)
                           /\ TableOf(tx, kind)[run.log[1].id][DateFieldOf(kind)]
                                 = StoredDate(kind, dt, tx.user_tz)

\* an activity row whose date is written day first, without leading zeros, was
\* created with the 1st of February 2024 as its date, and the user's timezone
\* moved it to the evening before in UTC
C22_DayFirstDateStored ==
    /\ DateRowDone
    /\ wiz.table_import = "activity"
    /\ DateCell = <<"1", "/", "2", "/", "2", "0", "2", "4">>
    /\ tx.user_tz = "Etc/GMT-1"
    /\ tx.task[run.log[1].id].planned_date_start =
          <<"2", "0", "2", "4", "-", "0", "1", "-", "3", "1", " ",
            "2", "3", ":", "0", "0", ":", "0", "0">>

\* the tables of stages and tags
StageTables == {"project_stage", "task_type", "tags", "ticket_stage"}
\* no two records of a table of stages or tags have the same name
NamesOnce(st) ==
    \A t \in StageTables : \A i, j \in 1..Len(st[t]) :
        st[t][i].name = st[t][j].name => i = j
\* every record of b that a does not hold has a name no record of a has
NewNamesOnly(a, b) ==
    \A t \in StageTables : \A i \in 1..Len(b[t]) :
        (i > Len(a[t]) \/ a[t][i] # b[t][i]) =>
            ~ \E j \in 1..Len(a[t]) : a[t][j].name = b[t][i].name

\* C23: a stage or a tag is created only when no record of its table has
\* exactly its name: every step leaves the tables of stages and tags, in the
\* transaction and in the database, without two records of one name, and the
\* records it adds have names the table did not hold
C23_StageNamesOnce ==
    [][NamesOnce(tx') /\ NamesOnce(db') /\ (NewNamesOnly(tx, tx') \/ NewNamesOnly(db, tx'))]_vars

\* two activity rows named the same stage, once by its alias and once by its
\* name, and the same tag: both tasks were created on the one stage and the one
\* tag of those names
C23_SecondRowFoundStage ==
    /\ pc = "loop"
    /\ wiz.table_import = "activity"
    /\ Len(run.log) = 2
    /\ Cell(wiz.file.rows[1], "Fatta/da fare") = <<"t", "o", " ", "d", "o">>
    /\ Cell(wiz.file.rows[2], "Fatta/da fare") # <<"t", "o", " ", "d", "o">>
    /\ \A i \in 1..2 :
          /\ run.log[i].action = "created"
          /\ tx.task[run.log[i].id].stage_id = 1
    /\ Len(tx.task_type) = 1
    /\ tx.task[run.log[1].id].tag_ids # <<>>
    /\ Cardinality({i \in 1..Len(tx.tags) : tx.tags[i].name = <<"m">>}) = 1

\* C24: when a run of any kind ends with a notification, the numbers of rows
\* created, updated and failed add up to the number of rows the csv reader
\* yielded, and every row was counted as exactly one of the three
C24_EveryRowCounted ==
    (pc = "idle" /\ result.type = "notification") =>
        /\ result.created + result.updated + result.errors
              = Len(result.wizard.file.rows)
        /\ Len(run.log) = Len(result.wizard.file.rows)
        /\ \A i \in 1..Len(run.log) :
              run.log[i].action \in {"created", "updated", "error"}
        /\ result.created = Counted("created")
        /\ result.updated = Counted("updated")
        /\ result.errors = Counted("error")

\* a second helpdesk import of two rows ended with one row updated and one
\* failed, and none created
C24_UpdatedAndFailedCounted ==
    /\ pc = "idle"
    /\ runs = 2
    /\ result.type = "notification"
    /\ result.wizard.table_import = "helpdesk"
    /\ Len(result.wizard.file.rows) = 2
    /\ result.created = 0
    /\ result.updated = 1
    /\ result.errors = 1

\* the code point of the byte order mark
BomChar == 65279
\* the blobs of up to four bytes over the bytes of the mark and a letter
RECURSIVE BlobsUpTo(_)
BlobsUpTo(n) ==
    IF n = 0 THEN {<<>>}
    ELSE BlobsUpTo(n - 1)
         \cup {Append(b, x) : b \in {y \in BlobsUpTo(n - 1) : Len(y) = n - 1},
                              x \in {239, 187, 191, LetterC}}

\* C25: with encoding 'auto', utf-8-sig is never the encoding selected: a blob
\* it decodes is decoded by utf-8, which is tried before it, so the text parsed
\* is the utf-8 reading; for a UTF-8 file that starts with a byte order mark
\* the mark is the first character of the text, the first field name is not
\* the column name Codice, and the rows read no Codice
C25_BomStaysUnderAuto ==
    /\ \A b \in BlobsUpTo(4) : Decode("utf-8-sig", b).ok => Decode("utf-8", b).ok
    /\ (pc = "loop" /\ wiz.file_encoding = "auto") =>
         LET b == wiz.file.blob
         IN  /\ Decode("utf-8-sig", b).ok => csv_content = Decode("utf-8", b).text
             /\ (Len(b) > 3 /\ SubSeq(b, 1, 3) = BomBytes /\ Decode("utf-8", b).ok) =>
                   /\ csv_content[1] = BomChar
                   /\ FieldNames(csv_content, BomFirstLine)[1] # "Codice"
                   /\ \A i \in 1..Len(wiz.file.rows) :
                         Cell(wiz.file.rows[i], "Codice") = <<>>
                   /\ \A i \in 1..Len(run.log) : run.log[i].action = "error"

\* an 'auto' import of a file that starts with a byte order mark went through
\* its two rows: the mark is in the text parsed, both rows failed for want of a
\* Codice, and no partner was created
C25_BomFileRowsFailed ==
    /\ pc = "loop"
    /\ wiz.file_encoding = "auto"
    /\ wiz.file.blob = BomBytes \o <<LetterC>>
    /\ csv_content = <<BomChar, LetterC>>
    /\ Decode("utf-8-sig", wiz.file.blob).text = <<LetterC>>
    /\ Len(run.log) = 2
    /\ \A i \in 1..2 : run.log[i].action = "error"
    /\ tx.partner = <<>>

\* the province the claim gives for a row: the state with the code of Prov.
\* in the country NAZIONE resolves to, or in any country when NAZIONE is blank
\* or resolves to none (0 when there is no such state)
ProvinceOf(row) ==
    LET country == IF Cell(row, "NAZIONE") = <<>> THEN 0
                   ELSE CountryByCode(Cell(row, "NAZIONE"))
    IN  First({i \in 1..Len(CountryStates) :
                 /\ CountryStates[i].code = Cell(row, "Prov.")
                 /\ (country # 0 => CountryStates[i].country_id = country)})

PartnerUpdateStep ==
    /\ RowStep
    /\ wiz.table_import = "partner"
    /\ run'.log[Len(run'.log)].action = "updated"
UpdatedPartner == run'.log[Len(run'.log)].id

\* C27: a partner row that matches an existing partner leaves the vat and the
\* l10n_it_codice_fiscale that partner has stored unchanged, in the transaction
\* and in the database, whatever the row's Partita IVA and Codice fiscale
C27_UpdateKeepsVatCf ==
    [][ PartnerUpdateStep =>
          /\ UpdatedPartner \in 1..Len(tx.partner)
          /\ UpdatedPartner \in 1..Len(tx'.partner)
          /\ tx'.partner[UpdatedPartner].vat = tx.partner[UpdatedPartner].vat
          /\ tx'.partner[UpdatedPartner].l10n_it_codice_fiscale
                = tx.partner[UpdatedPartner].l10n_it_codice_fiscale
          /\ UpdatedPartner \in 1..Len(db.partner) =>
                /\ db'.partner[UpdatedPartner].vat = db.partner[UpdatedPartner].vat
                /\ db'.partner[UpdatedPartner].l10n_it_codice_fiscale
                      = db.partner[UpdatedPartner].l10n_it_codice_fiscale ]_vars

\* a partner created with a VAT and no fiscal code was matched by a second row
\* that carries a fiscal code and no VAT: it still has the VAT and no fiscal code
C27_FiscalCodeOfUpdateIgnored ==
    /\ pc = "loop"
    /\ wiz.table_import = "partner"
    /\ Len(run.log) = 2
    /\ run.log[1].action = "created"
    /\ run.log[2].action = "updated"
    /\ run.log[2].id = run.log[1].id
    /\ Cell(wiz.file.rows[2], "Codice fiscale") = CfGood
    /\ Cell(wiz.file.rows[2], "Partita IVA") = <<>>
    /\ tx.partner[run.log[2].id].vat = VatGood
    /\ tx.partner[run.log[2].id].l10n_it_codice_fiscale = <<>>

\* this step is a helpdesk row counted as created or as updated; its ticket
TicketStep(action) ==
    /\ RowStep
    /\ wiz.table_import = "helpdesk"
    /\ run'.log[Len(run'.log)].action = action
StepTicket == run'.log[Len(run'.log)].id

\* C28: the helpdesk import never writes the dates it parsed from Data
\* creazione and Data Pianificazione: a ticket it creates has the time of the
\* insert as create_date and no planned_date, and a ticket it updates keeps
\* the create_date and the planned_date it had
C28_TicketDatesNotWritten ==
    [][ /\ TicketStep("created") =>
             /\ tx'.ticket[StepTicket].create_date = ClockNow
             /\ tx'.ticket[StepTicket].planned_date = <<>>
             /\ db'.ticket[StepTicket] = tx'.ticket[StepTicket]
        /\ TicketStep("updated") =>
             /\ tx'.ticket[StepTicket].create_date = tx.ticket[StepTicket].create_date
             /\ tx'.ticket[StepTicket].planned_date = tx.ticket[StepTicket].planned_date
             /\ db'.ticket[StepTicket] = tx'.ticket[StepTicket] ]_vars

\* a first row created a ticket and a second row, with a creation date and a
\* planning date that both parse, updated it: the ticket has the time of its
\* insert as create_date and no planned_date
C28_ParsedDatesDropped ==
    /\ pc = "loop"
    /\ wiz.table_import = "helpdesk"
    /\ Len(run.log) = 2
    /\ run.log[1].action = "created"
    /\ run.log[2].action = "updated"
    /\ run.log[2].id = run.log[1].id
    /\ \A i \in 1..2 :
          /\ ParseDate(Cell(wiz.file.rows[i], "Data creazione"), date_formats).ok
          /\ ParseDate(Cell(wiz.file.rows[i], "Data Pianificazione"), date_formats).ok
    /\ tx.ticket[run.log[2].id].create_date = ClockNow
    /\ tx.ticket[run.log[2].id].planned_date = <<>>

\* this step is a project row counted as created or as updated
ProjectStep ==
    /\ RowStep
    /\ wiz.table_import = "project"
    /\ run'.log[Len(run'.log)].action \in {"created", "updated"}
StepProject == run'.log[Len(run'.log)].id

\* C29: a project row that is created or updated leaves its project with the
\* wizard's User as user_id, and with no user when the wizard has none
C29_ProjectGetsWizardUser ==
    [][ ProjectStep =>
          tx'.project[StepProject].user_id = wiz.user_id ]_vars

\* a first import under a user created a project, and a second import whose
\* wizard has no user updated it: the project has no user any more
C29_UpdateClearedUser ==
    /\ pc = "loop"
    /\ wiz.table_import = "project"
    /\ wiz.user_id = 0
    /\ prev.type = "notification"
    /\ prev.wizard.user_id # 0
    /\ Len(run.log) = 1
    /\ run.log[1].action = "updated"
    /\ run.start.project[run.log[1].id].user_id = prev.wizard.user_id
    /\ tx.project[run.log[1].id].user_id = 0

\* the date/time values the two dash day-month-year formats read in the value
DashDayFirstValues(value) ==
    ValuesRead(value, Fmt_dmY_dash) \cup ValuesRead(value, Fmt_dmY_dash_HM)

\* C30: a date written day-month-year with dashes, with or without a time, is
\* stored by the project, activity and helpdesk imports, while the stock-lot
\* import, whose list has the six other formats only, imports the row without
\* the warranty date: a lot it creates has none, a lot it updates keeps its own
C30_DashDatesDroppedForLots ==
    (/\ pc = "loop"
     /\ wiz.table_import \in DateKinds
     /\ Len(run.log) = 1
     /\ DashDayFirstValues(DateCell) # {}) =>
        LET kind == wiz.table_import
            done == run.log[1]
        IN  IF kind = "stock_lot"
            THEN /\ done.action \in {"created", "updated"}
                 /\ DateFieldOf(kind) \notin DOMAIN done.vals
                 /\ TableOf(tx, kind)[done.id][DateFieldOf(kind)] =
                       IF done.action = "created" THEN <<>>
                       ELSE TableOf(run.start, kind)[done.id][DateFieldOf(kind)]
            ELSE done.action \in {"created", "updated"} =>
                    \A dt \in DashDayFirstValues(DateCell) :
                       /\ Get(done.vals, DateFieldOf(kind), <<>>)
                             = StoredDate(kind, dt, tx.user_tz)
                       /\ TableOf(tx, kind)[done.id][DateFieldOf(kind)]
                             = StoredDate(kind, dt, tx.user_tz)

\* a stock-lot row whose Garanzia manodopera is 31-03-2024 was created, and
\* its lot has no labor warranty date
C30_LotCreatedWithoutWarranty ==
    /\ DateRowDone
    /\ wiz.table_import = "stock_lot"
    /\ DateCell = DashDate
    /\ run.log[1].action = "created"
    /\ TableOf(tx, "stock_lot")[run.log[1].id].labor_warranty = <<>>

====
